---- MODULE Spec2Model ----
(***************************************************************************)
(* Drag-and-drop list demos of the prototypes repository                   *)
(* (src/drag-n-drop-01/src/demos and src/unnamed).  Every demo keeps a     *)
(* two-level list (root entries, groups with child items) in React state   *)
(* and rewrites it in its dnd-kit handlers.  One demo is mounted at a      *)
(* time (variable demo); its handlers are the actions.                     *)
(*                                                                         *)
(* Arrays are sequences; indexes are the 0-based JavaScript indexes, -1    *)
(* is "not found".                                                         *)
(***************************************************************************)
EXTENDS Integers, Sequences, FiniteSets, TLC

VARIABLES
    demo,          \* the mounted demo component
    gestures,      \* completed drag gestures so far
    dnd_active,    \* dnd-kit: id of the node being dragged, NULL when idle
    dnd_over,      \* dnd-kit: the over last delivered to onDragOver
    snapshot,      \* history: the committed tree when the gesture in progress started
    v9_appState,   \* v9: useState<AppState> {rootOrder, items[id].groupId, groups[id].itemIds}
    v9_activeId,   \* v9: useState<Id | null>
    v3d_items,     \* v3 (4th demo): useState<ListItem[]>
    v3d_activeId,  \* v3 (4th demo): useState<UniqueIdentifier | null>
    v4a_items,     \* v4 (1st demo): useState<ItemOrGroup[]>
    v4a_activeId,  \* v4 (1st demo): useState<UniqueIdentifier | null>
    v4a_uuid,      \* v4 (1st demo): uuidv4() calls made by createNewGroup
    v4a_inputNow,  \* v4 (1st demo): the items array of the last drop, read after the handler
    v3a_items,     \* v3 (1st demo): useState<ItemType[]> (standalone items)
    v3a_groups,    \* v3 (1st demo): useState<GroupType[]>
    v3a_mainList,  \* v3 (1st demo): useState<ListItem[]>
    v3a_activeId,  \* v3 (1st demo): useState<string | null>
    v3a_activeType,    \* v3 (1st demo): useState<'item' | 'group' | null>
    v3a_dropIndicator, \* v3 (1st demo): useState<DropIndicator>
    v3a_nextId,    \* v3 (1st demo): generateId() calls made so far
    v1_items,      \* v1: useState<Item[]> (root items)
    v1_groups,     \* v1: useState<Group[]>
    v1_activeParentId, \* v1: useState<UniqueIdentifier | null>
    p2_rootItems,  \* part_002: useState<RootItem[]>
    p2_activeParentId, \* part_002: useState<UniqueIdentifier | null>
    v6_elements,       \* v6: useState<ElementType[]>
    v6_activeElement,  \* v6: useState<ElementType | null>
    v6_activeItemFromGroup, \* v6: useState<{itemId, groupId} | null>
    v6_dropTarget,     \* v6: useState<DropTarget | null>
    v6_lastClientOffset,    \* v6: useRef<{x, y} | null>, its y
    v6_created,        \* v6: createGroup() calls made by addGroup
    v3c_items,     \* v3 (3rd demo): useState<ListItem[]>
    v3c_activeId,  \* v3 (3rd demo): useState<UniqueIdentifier | null>
    v10a_groups,           \* v10a: useState<Group[]>
    v10a_leftColumnItems,  \* v10a: useState<string[]>
    v10a_rightColumnItems, \* v10a: useState<string[]>
    v10a_activeId,         \* v10a: useState<string | null>
    v10a_activeItem,       \* v10a: useState<DraggableItem | null>
    v10a_activeColumn,     \* v10a: useState<Column | null>
    v10a_overDropZone,     \* v10a: useState<string | null>
    v10a_previewPosition,  \* v10a: useState<PreviewPosition | null>
    v2_rootItems,      \* v2: useState<RootItem[]>
    v2_activeParentId, \* v2: useState<UniqueIdentifier | null>
    v2_overGroup,      \* v2: useState<UniqueIdentifier | null>
    v2_overAfterArea,  \* v2: useState<UniqueIdentifier | null>
    v2_dropPreview,    \* v2: useState<DropPreview>
    p1_topLevel,   \* part_001: useState<TopLevelEntry[]>
    p1_groupItems, \* part_001: useState<Record<string, GroupItem[]>>
    p1_activeId,   \* part_001: useState<UniqueIdentifier | null>
    p1_activeData, \* part_001: dnd-kit active.data.current {container, content}
    p1_created,    \* part_001: createNewGroup clicks so far
    v4b_groups,            \* v4 two columns: useState<Group[]>
    v4b_leftColumnItems,   \* v4 two columns: useState<string[]>
    v4b_rightColumnItems,  \* v4 two columns: useState<string[]>
    v4b_activeId,          \* v4 two columns: useState<string | null>
    v4b_activeItem,        \* v4 two columns: useState<DraggableItem | null>
    v4b_overDropZone,      \* v4 two columns: useState<string | null>
    v4b_previewPosition,   \* v4 two columns: useState<PreviewPosition | null>
    v4b_isOverLeftColumn,  \* v4 two columns: useState(false)
    v0_items,              \* v0: useState<DraggableItem[]>
    v0_activeId,           \* v0: useState<string | null>
    v0_created,            \* v0: groups made by handleAddGroup so far
    ipc_loading,           \* useStreamResponse: useState(false)
    ipc_error,             \* useStreamResponse: useState<string | null>(null)
    ipc_response,          \* useStreamResponse: useState<string>('')
    ipc_isDone,            \* useStreamResponse: useState(false)
    ipc_now,               \* preload: the value of Date.now()
    ipc_streams,           \* main: the STREAM_RESPONSE handlers invoked so far
    ipc_wire,              \* messages sent by event.sender.send, not yet received
    ipc_received           \* the callback invocations made so far

dndvars == <<gestures, dnd_active, dnd_over, snapshot>>
v9vars  == <<v9_appState, v9_activeId>>
v3dvars == <<v3d_items, v3d_activeId>>
v4avars == <<v4a_items, v4a_activeId, v4a_uuid, v4a_inputNow>>
v3avars == <<v3a_items, v3a_groups, v3a_mainList, v3a_activeId, v3a_activeType,
             v3a_dropIndicator, v3a_nextId>>

v1vars  == <<v1_items, v1_groups, v1_activeParentId>>

p2vars == <<p2_rootItems, p2_activeParentId>>

v6vars == <<v6_elements, v6_activeElement, v6_activeItemFromGroup, v6_dropTarget, v6_lastClientOffset, v6_created>>

v3cvars == <<v3c_items, v3c_activeId>>

v10avars == <<v10a_groups, v10a_leftColumnItems, v10a_rightColumnItems, v10a_activeId, v10a_activeItem, v10a_activeColumn, v10a_overDropZone, v10a_previewPosition>>

v2vars == <<v2_rootItems, v2_activeParentId, v2_overGroup, v2_overAfterArea, v2_dropPreview>>

p1vars == <<p1_topLevel, p1_groupItems, p1_activeId, p1_activeData, p1_created>>

v4bvars == <<v4b_groups, v4b_leftColumnItems, v4b_rightColumnItems, v4b_activeId, v4b_activeItem, v4b_overDropZone, v4b_previewPosition, v4b_isOverLeftColumn>>

v0vars == <<v0_items, v0_activeId, v0_created>>

ipcvars == <<ipc_loading, ipc_error, ipc_response, ipc_isDone, ipc_now, ipc_streams, ipc_wire, ipc_received>>

vars == <<demo, dndvars, v9vars, v3dvars, v4avars, v3avars, v1vars, p2vars, v6vars, v3cvars, v10avars, v2vars, p1vars, v4bvars, v0vars, ipcvars>>

\* no gesture in progress
NoSnapshot == <<>>

\* what the handlers of one demo leave alone: the other demos are not mounted
FrameV9 == UNCHANGED <<demo, v3dvars, v4avars, v3avars, v1vars, p2vars, v6vars, v3cvars, v10avars, v2vars, p1vars, v4bvars, v0vars, ipcvars>>
FrameV3d == UNCHANGED <<demo, v9vars, v4avars, v3avars, v1vars, p2vars, v6vars, v3cvars, v10avars, v2vars, p1vars, v4bvars, v0vars, ipcvars>>
FrameV4a == UNCHANGED <<demo, v9vars, v3dvars, v3avars, v1vars, p2vars, v6vars, v3cvars, v10avars, v2vars, p1vars, v4bvars, v0vars, ipcvars>>
FrameV3a == UNCHANGED <<demo, v9vars, v3dvars, v4avars, v1vars, p2vars, v6vars, v3cvars, v10avars, v2vars, p1vars, v4bvars, v0vars, ipcvars>>
FrameV1 == UNCHANGED <<demo, v9vars, v3dvars, v4avars, v3avars, p2vars, v6vars, v3cvars, v10avars, v2vars, p1vars, v4bvars, v0vars, ipcvars>>
FrameP2 == UNCHANGED <<demo, v9vars, v3dvars, v4avars, v3avars, v1vars, v6vars, v3cvars, v10avars, v2vars, p1vars, v4bvars, v0vars, ipcvars>>
FrameV6 == UNCHANGED <<demo, v9vars, v3dvars, v4avars, v3avars, v1vars, p2vars, v3cvars, v10avars, v2vars, p1vars, v4bvars, v0vars, ipcvars>>
FrameV3c == UNCHANGED <<demo, v9vars, v3dvars, v4avars, v3avars, v1vars, p2vars, v6vars, v10avars, v2vars, p1vars, v4bvars, v0vars, ipcvars>>
FrameV10a == UNCHANGED <<demo, v9vars, v3dvars, v4avars, v3avars, v1vars, p2vars, v6vars, v3cvars, v2vars, p1vars, v4bvars, v0vars, ipcvars>>
FrameV2 == UNCHANGED <<demo, v9vars, v3dvars, v4avars, v3avars, v1vars, p2vars, v6vars, v3cvars, v10avars, p1vars, v4bvars, v0vars, ipcvars>>
FrameP1 == UNCHANGED <<demo, v9vars, v3dvars, v4avars, v3avars, v1vars, p2vars, v6vars, v3cvars, v10avars, v2vars, v4bvars, v0vars, ipcvars>>
FrameV4b == UNCHANGED <<demo, v9vars, v3dvars, v4avars, v3avars, v1vars, p2vars, v6vars, v3cvars, v10avars, v2vars, p1vars, v0vars, ipcvars>>
FrameV0 == UNCHANGED <<demo, v9vars, v3dvars, v4avars, v3avars, v1vars, p2vars, v6vars, v3cvars, v10avars, v2vars, p1vars, v4bvars, ipcvars>>
FrameIpc == UNCHANGED <<demo, v9vars, v3dvars, v4avars, v3avars, v1vars, p2vars, v6vars, v3cvars, v10avars, v2vars, p1vars, v4bvars, v0vars>>

\* Completed gestures explored per run.
MaxGestures == 2

NULL == "null"
UNDEFINED == "undefined"

Min(a, b) == IF a < b THEN a ELSE b
Max(a, b) == IF a > b THEN a ELSE b

(***************************************************************************)
(* JavaScript array primitives as the handlers use them.                   *)
(***************************************************************************)
\* Array.prototype.indexOf
IndexOf(arr, x) ==
    IF \E i \in 1..Len(arr) : arr[i] = x
    THEN (CHOOSE i \in 1..Len(arr) : arr[i] = x /\ \A j \in 1..(i - 1) : arr[j] # x) - 1
    ELSE -1

\* Array.prototype.findIndex((e) => e.id === id)
FindIndex(arr, id) ==
    IF \E i \in 1..Len(arr) : arr[i].id = id
    THEN (CHOOSE i \in 1..Len(arr) : arr[i].id = id /\ \A j \in 1..(i - 1) : arr[j].id # id) - 1
    ELSE -1

\* Array.prototype.includes
Includes(arr, x) == \E i \in 1..Len(arr) : arr[i] = x

\* the start index Array.prototype.splice really uses
SpliceStart(len, start) ==
    IF start < 0 THEN Max(len + start, 0) ELSE Min(start, len)

\* arr.splice(start, 0, x)
SpliceInsert(arr, start, x) ==
    LET s == SpliceStart(Len(arr), start)
    IN  SubSeq(arr, 1, s) \o <<x>> \o SubSeq(arr, s + 1, Len(arr))

\* arr.splice(start, 1)
SpliceRemove(arr, start) ==
    LET s == SpliceStart(Len(arr), start)
    IN  IF s < Len(arr)
        THEN SubSeq(arr, 1, s) \o SubSeq(arr, s + 2, Len(arr))
        ELSE arr

\* arr.filter((e) => e !== x)
FilterOut(arr, x) ==
    LET Keep(e) == e # x IN SelectSeq(arr, Keep)

\* arr.filter((e) => e.id !== id)
FilterOutId(arr, id) ==
    LET Keep(e) == e.id # id IN SelectSeq(arr, Keep)

\* arrayMove(array, from, to): remove at from, insert the removed element at to
arrayMove(array, from, to) ==
    LET s     == SpliceStart(Len(array), from)
        moved == IF s < Len(array) THEN array[s + 1] ELSE UNDEFINED
    IN  SpliceInsert(SpliceRemove(array, from), to, moved)

\* the set of elements of a sequence
Range(arr) == {arr[i] : i \in 1..Len(arr)}

\* number of positions of arr holding x
Count(arr, x) == Cardinality({i \in 1..Len(arr) : arr[i] = x})

(***************************************************************************)
(* v9-gemini-2-5-pro.tsx: normalized state                                 *)
(***************************************************************************)
V9ItemIds  == {"item-1", "item-2", "item-3", "item-4", "item-5", "item-6", "item-7"}
V9GroupIds == {"group-a", "group-b"}

V9initialData ==
    [ rootOrder |-> <<"item-1", "group-a", "item-4", "group-b", "item-6">>,
      groupId   |-> [i \in V9ItemIds |->
                       CASE i \in {"item-2", "item-3"} -> "group-a"
                         [] i \in {"item-5", "item-7"} -> "group-b"
                         [] OTHER -> NULL],
      itemIds   |-> [g \in V9GroupIds |->
                       IF g = "group-a" THEN <<"item-2", "item-3">>
                                        ELSE <<"item-5", "item-7">>] ]

V9findItem(id, state)  == id \in DOMAIN state.groupId
V9findGroup(id, state) == id \in DOMAIN state.itemIds

\* active.data.current.type of the useSortable nodes
V9activeType(id) == IF id \in V9GroupIds THEN "group" ELSE "item"

\* the droppables mounted while `id` is dragged: items, groups, and the
\* above/below zones of every root group while an item is dragged
V9Overs(state, id) ==
    {[id |-> i, type |-> "item", groupId |-> NULL] : i \in V9ItemIds}
    \cup {[id |-> g, type |-> "group", groupId |-> NULL] : g \in V9GroupIds}
    \cup (IF V9activeType(id) = "item"
          THEN {[id |-> "above-group-" \o g, type |-> "dropzone-above", groupId |-> g] :
                    g \in {h \in V9GroupIds : Includes(state.rootOrder, h)}}
               \cup
               {[id |-> "below-group-" \o g, type |-> "dropzone-below", groupId |-> g] :
                    g \in {h \in V9GroupIds : Includes(state.rootOrder, h)}}
          ELSE {})

\* event.over === null
NoOver == [id |-> NULL, type |-> NULL, groupId |-> NULL]

V9targetIsDropZone(over) == over.type \in {"dropzone-above", "dropzone-below"}

\* "Determine target container based on what is being hovered over":
\* [c |-> targetContainerId, i |-> targetIndex]
V9Target(st, over) ==
    LET overId == over.id IN
    IF V9findGroup(overId, st) THEN [c |-> overId, i |-> -1]
    ELSE IF V9findItem(overId, st) THEN
        LET c == IF st.groupId[overId] # NULL THEN st.groupId[overId] ELSE "root" IN
        [c |-> c,
         i |-> IF c = "root" THEN IndexOf(st.rootOrder, overId)
               ELSE IF c \in DOMAIN st.itemIds THEN IndexOf(st.itemIds[c], overId)
               ELSE -1]
    ELSE IF V9targetIsDropZone(over) /\ over.groupId # NULL THEN
        LET relatedGroupIndex == IndexOf(st.rootOrder, over.groupId) IN
        [c |-> "root",
         i |-> IF relatedGroupIndex # -1
               THEN (IF over.type = "dropzone-above"
                     THEN relatedGroupIndex ELSE relatedGroupIndex + 1)
               ELSE Len(st.rootOrder)]
    ELSE IF Includes(st.rootOrder, overId) THEN
        [c |-> "root", i |-> IndexOf(st.rootOrder, overId)]
    ELSE [c |-> "root", i |-> Len(st.rootOrder)]

\* faulty variant of the group move: the computed index is dropped and the
\* "Fallback append" is always taken
V9MoveGroupAppend(st, activeId, tgt) ==
    LET activeIndex == IndexOf(st.rootOrder, activeId) IN
    IF activeIndex # -1 /\ activeIndex # Len(st.rootOrder)
    THEN [st EXCEPT !.rootOrder = arrayMove(@, activeIndex, Len(st.rootOrder))]
    ELSE st

\* "1. Moving a Group (must stay in root)"
V9MoveGroup(st, activeId, tgt) ==
    LET activeIndex == IndexOf(st.rootOrder, activeId)
        g0 == IF tgt.c = "root" THEN tgt.i
              ELSE IF tgt.c # NULL /\ tgt.c \in DOMAIN st.itemIds
                   THEN IndexOf(st.rootOrder, tgt.c)
                   ELSE -1
        groupTargetIndex == IF g0 < 0 \/ g0 > Len(st.rootOrder)
                            THEN Len(st.rootOrder) ELSE g0
    IN  IF activeIndex # -1 /\ activeIndex # groupTargetIndex
        THEN [st EXCEPT !.rootOrder = arrayMove(@, activeIndex, groupTargetIndex)]
        ELSE st

\* "A. Sorting within the SAME container"
V9SortSame(st, activeId, overId, c) ==
    IF c = "root" THEN
        LET activeIndex == IndexOf(st.rootOrder, activeId)
            overIndex   == IndexOf(st.rootOrder, overId)
        IN  IF activeIndex # -1 /\ overIndex # -1
            THEN [st EXCEPT !.rootOrder = arrayMove(@, activeIndex, overIndex)]
            ELSE st
    ELSE IF c \in DOMAIN st.itemIds THEN
        LET ids         == st.itemIds[c]
            activeIndex == IndexOf(ids, activeId)
            overIndex   == IF overId = c THEN Len(ids) ELSE IndexOf(ids, overId)
        IN  IF activeIndex # -1 /\ overIndex # -1
            THEN [st EXCEPT !.itemIds[c] = arrayMove(ids, activeIndex, overIndex)]
            ELSE st
    ELSE st

\* faulty variant of the removal: the source container keeps the id
V9RemoveFromSourceKeep(st, activeId, source) == st

\* faulty variant of the removal: a group that loses its last child is taken
\* out of the root list
V9RemoveFromSourceDropEmpty(st, activeId, source) ==
    IF source = "root" THEN
        LET index == IndexOf(st.rootOrder, activeId) IN
        IF index > -1 THEN [st EXCEPT !.rootOrder = SpliceRemove(@, index)] ELSE st
    ELSE IF source \in DOMAIN st.itemIds THEN
        LET index == IndexOf(st.itemIds[source], activeId) IN
        IF index > -1
        THEN [st EXCEPT !.itemIds[source] = SpliceRemove(@, index),
                        !.rootOrder = IF Len(st.itemIds[source]) = 1
                                      THEN FilterOut(@, source) ELSE @]
        ELSE st
    ELSE st

\* "Remove from source"
V9RemoveFromSource(st, activeId, source) ==
    IF source = "root" THEN
        LET index == IndexOf(st.rootOrder, activeId) IN
        IF index > -1 THEN [st EXCEPT !.rootOrder = SpliceRemove(@, index)] ELSE st
    ELSE IF source \in DOMAIN st.itemIds THEN
        LET index == IndexOf(st.itemIds[source], activeId) IN
        IF index > -1 THEN [st EXCEPT !.itemIds[source] = SpliceRemove(@, index)] ELSE st
    ELSE st

\* faulty variant of the insertion: no fallback for an index past the end,
\* the id is added only when the index lies inside the container
V9AddToTargetInRange(st, prev, activeId, c, targetIndex) ==
    IF targetIndex >= 0 /\ targetIndex <= Len(IF c = "root" THEN st.rootOrder ELSE st.itemIds[c])
    THEN IF c = "root"
         THEN [st EXCEPT !.groupId[activeId] = NULL,
                         !.rootOrder = SpliceInsert(@, targetIndex, activeId)]
         ELSE [st EXCEPT !.groupId[activeId] = c,
                         !.itemIds[c] = SpliceInsert(@, targetIndex, activeId)]
    ELSE st

\* faulty variant of the insertion: the id is put into the container but the
\* groupId cached on the item is left as it was
V9AddToTargetStaleGroupId(st, prev, activeId, c, targetIndex) ==
    IF c = "root" THEN
        [st EXCEPT !.rootOrder = IF targetIndex >= 0 /\ targetIndex <= Len(st.rootOrder)
                                 THEN SpliceInsert(@, targetIndex, activeId)
                                 ELSE Append(@, activeId)]
    ELSE IF c \in DOMAIN st.itemIds THEN
        LET insertionIndex ==
                IF targetIndex # -1 /\ targetIndex <= Len(st.itemIds[c])
                THEN targetIndex ELSE Len(st.itemIds[c])
        IN  [st EXCEPT !.itemIds[c] = SpliceInsert(@, insertionIndex, activeId)]
    ELSE prev

\* "Add to target"; prev is returned when the target container is invalid
V9AddToTarget(st, prev, activeId, c, targetIndex) ==
    IF c = "root" THEN
        [st EXCEPT !.groupId[activeId] = NULL,
                   !.rootOrder = IF targetIndex >= 0 /\ targetIndex <= Len(st.rootOrder)
                                 THEN SpliceInsert(@, targetIndex, activeId)
                                 ELSE Append(@, activeId)]
    ELSE IF c \in DOMAIN st.itemIds THEN
        LET insertionIndex ==
                IF targetIndex # -1 /\ targetIndex <= Len(st.itemIds[c])
                THEN targetIndex ELSE Len(st.itemIds[c])
        IN  [st EXCEPT !.groupId[activeId] = c,
                       !.itemIds[c] = SpliceInsert(@, insertionIndex, activeId)]
    ELSE prev

\* the setAppState updater of handleDragEnd
V9DragEndUpdate(prevState, activeId, over) ==
    LET nextState  == prevState          \* JSON.parse(JSON.stringify(prevState))
        overId     == over.id
        activeItem == V9findItem(activeId, nextState)
        activeGrp  == V9findGroup(activeId, nextState)
        overGroup  == V9findGroup(overId, nextState)
        activeType == V9activeType(activeId)
        sourceContainerId ==
            IF activeItem /\ nextState.groupId[activeId] # NULL
            THEN nextState.groupId[activeId]
            ELSE IF Includes(nextState.rootOrder, activeId) THEN "root" ELSE NULL
        tgt0 == V9Target(nextState, over)
    IN  IF activeType = "group" /\ activeGrp THEN
            V9MoveGroup(nextState, activeId, tgt0)
        ELSE IF activeType = "item" /\ activeItem
                /\ sourceContainerId # NULL /\ tgt0.c # NULL THEN
            LET tgt == IF overGroup /\ overId = tgt0.c
                       THEN [c |-> overId, i |-> Len(nextState.itemIds[overId])]
                       ELSE tgt0
            IN  IF sourceContainerId = tgt.c /\ ~V9targetIsDropZone(over)
                THEN V9SortSame(nextState, activeId, overId, tgt.c)
                ELSE V9AddToTarget(
                         V9RemoveFromSource(nextState, activeId, sourceContainerId),
                         prevState, activeId, tgt.c, tgt.i)
        ELSE nextState

\* handleDragEnd: the state committed by the drop ("Drag ended without move or
\* cancelled" returns before setAppState)
V9DragEnd(prevState, activeId, over) ==
    IF over = NoOver \/ activeId = over.id
    THEN prevState
    ELSE V9DragEndUpdate(prevState, activeId, over)

\* onDragStart is delivered by dnd-kit's DndContext, which tracks one active
\* draggable at a time: the guard dnd_active = NULL of every drag-start action
\* stands for that; the handlers themselves do not test it
V9handleDragStart(id) ==
    /\ demo = "v9"
    /\ dnd_active = NULL
    /\ gestures < MaxGestures
    /\ dnd_active' = id
    /\ v9_activeId' = id
    /\ UNCHANGED <<gestures, dnd_over, snapshot, v9_appState>>
    /\ FrameV9

\* faulty variant of handleDragOver: the dragged id is taken out of the root
\* list while the drag is in progress (a commit before the drop)
V9handleDragOverLive ==
    /\ demo = "v9"
    /\ dnd_active # NULL
    /\ v9_appState' = [v9_appState EXCEPT !.rootOrder = FilterOut(@, dnd_active)]
    /\ UNCHANGED <<dndvars, v9_activeId>>
    /\ FrameV9

\* handleDragOver is an empty callback
V9handleDragOver ==
    /\ demo = "v9"
    /\ dnd_active # NULL
    /\ UNCHANGED vars

V9handleDragEnd(over) ==
    /\ demo = "v9"
    /\ dnd_active # NULL
    /\ dnd_active' = NULL
    /\ v9_activeId' = NULL
    /\ gestures' = gestures + 1
    /\ v9_appState' = V9DragEnd(v9_appState, dnd_active, over)
    /\ UNCHANGED <<dnd_over, snapshot>>
    /\ FrameV9

NextV9 ==
    \/ \E id \in V9ItemIds \cup V9GroupIds : V9handleDragStart(id)
    \/ V9handleDragOver
    \/ \E over \in V9Overs(v9_appState, dnd_active) \cup {NoOver} : V9handleDragEnd(over)

(***************************************************************************)
(* v3.tsx, fourth demo (DragDropList with findItemOrGroupGlobally):        *)
(* nested state, items: ListItem[]                                         *)
(***************************************************************************)
\* an ItemType / GroupType value (content and name never change)
It(id)       == [id |-> id, type |-> "item", items |-> <<>>]
Gr(id, kids) == [id |-> id, type |-> "group", items |-> kids]

V3dinitialItems ==
    << It("item-1"),
       Gr("group-1", <<It("item-2"), It("item-3")>>),
       It("item-4"),
       Gr("group-2", <<It("item-5")>>),
       It("item-6"),
       Gr("group-3", <<>>) >>

\* index of the top-level group `id` (find((g) => g.id === id && g.type === 'group'))
FindGroupIndex(items, id) ==
    IF \E i \in 1..Len(items) : items[i].id = id /\ items[i].type = "group"
    THEN (CHOOSE i \in 1..Len(items) : items[i].id = id /\ items[i].type = "group"
              /\ \A j \in 1..(i - 1) : ~(items[j].id = id /\ items[j].type = "group")) - 1
    ELSE -1

\* findItemOrGroupGlobally: [ok, item, parentId]
V3dfindItemOrGroup(items, id) ==
    IF FindIndex(items, id) # -1
    THEN [ok |-> TRUE, item |-> items[FindIndex(items, id) + 1], parentId |-> NULL]
    ELSE IF \E i \in 1..Len(items) :
                items[i].type = "group" /\ FindIndex(items[i].items, id) # -1
    THEN LET gi == CHOOSE i \in 1..Len(items) :
                      /\ items[i].type = "group" /\ FindIndex(items[i].items, id) # -1
                      /\ \A j \in 1..(i - 1) :
                            ~(items[j].type = "group" /\ FindIndex(items[j].items, id) # -1)
         IN  [ok |-> TRUE,
              item |-> items[gi].items[FindIndex(items[gi].items, id) + 1],
              parentId |-> items[gi].id]
    ELSE [ok |-> FALSE, item |-> It(NULL), parentId |-> NULL]

\* the draggable ids rendered from items
V3dIds(items) ==
    {items[i].id : i \in 1..Len(items)}
    \cup UNION {{items[i].items[k].id : k \in 1..Len(items[i].items)} : i \in 1..Len(items)}

\* over.data.current of the rendered useSortable nodes
V3dOvers(items) ==
    {[id |-> items[i].id, type |-> items[i].type, groupId |-> NULL] : i \in 1..Len(items)}
    \cup UNION {{[id |-> items[i].items[k].id, type |-> "groupItem", groupId |-> items[i].id] :
                    k \in 1..Len(items[i].items)} : i \in 1..Len(items)}

\* "1. Determine Target Parent and Index": [p |-> targetParentId, i |-> targetIndex]
V3dTarget(currentItems, over, draggedItem, sourceParentId) ==
    LET overId == over.id
        raw ==
          IF over.type = "groupItem" /\ over.groupId # NULL THEN
              LET gi == FindGroupIndex(currentItems, over.groupId) IN
              [p |-> over.groupId,
               i |-> IF gi # -1 THEN FindIndex(currentItems[gi + 1].items, overId) ELSE -1]
          ELSE IF over.type = "group" THEN
              LET gi == FindGroupIndex(currentItems, overId) IN
              IF gi # -1
              THEN IF draggedItem.type = "item"
                   THEN [p |-> overId, i |-> Len(currentItems[gi + 1].items)]
                   ELSE [p |-> NULL, i |-> FindIndex(currentItems, overId)]
              ELSE [p |-> NULL, i |-> -1]
          ELSE IF over.type = "item" THEN
              [p |-> NULL, i |-> FindIndex(currentItems, overId)]
          ELSE
              LET topLevelIndex == FindIndex(currentItems, overId) IN
              IF topLevelIndex # -1 THEN [p |-> NULL, i |-> topLevelIndex]
              ELSE IF sourceParentId # NULL /\ FindIndex(currentItems, sourceParentId) # -1
                   THEN [p |-> NULL, i |-> FindIndex(currentItems, sourceParentId) + 1]
                   ELSE [p |-> NULL, i |-> Len(currentItems)]
    IN  IF raw.i = -1
        THEN IF raw.p # NULL
             THEN [p |-> raw.p,
                   i |-> IF FindGroupIndex(currentItems, raw.p) # -1
                         THEN Len(currentItems[FindGroupIndex(currentItems, raw.p) + 1].items)
                         ELSE 0]
             ELSE [p |-> NULL, i |-> Len(currentItems)]
        ELSE raw

\* "If moving within the same container, use arrayMove"
V3dMoveSame(currentItems, activeId, tgt) ==
    IF tgt.p = NULL THEN
        LET oldIndex == FindIndex(currentItems, activeId) IN
        IF oldIndex # -1 THEN arrayMove(currentItems, oldIndex, tgt.i) ELSE currentItems
    ELSE
        LET groupIndex == FindIndex(currentItems, tgt.p) IN
        IF groupIndex # -1 /\ currentItems[groupIndex + 1].type = "group" THEN
            LET group    == currentItems[groupIndex + 1]
                oldIndex == FindIndex(group.items, activeId)
                correctedTargetIndex == IF oldIndex < tgt.i THEN tgt.i - 1 ELSE tgt.i
            IN  IF oldIndex # -1
                THEN [currentItems EXCEPT ![groupIndex + 1].items =
                          arrayMove(group.items, oldIndex, correctedTargetIndex)]
                ELSE currentItems
        ELSE currentItems

\* "Remove from source": [ok, items, moved]
V3dRemove(newItems, activeId, sourceParentId) ==
    IF sourceParentId # NULL THEN
        LET sgi == FindIndex(newItems, sourceParentId) IN
        IF sgi > -1 /\ newItems[sgi + 1].type = "group"
           /\ FindIndex(newItems[sgi + 1].items, activeId) > -1
        THEN LET itemIndex == FindIndex(newItems[sgi + 1].items, activeId) IN
             [ok |-> TRUE,
              moved |-> newItems[sgi + 1].items[itemIndex + 1],
              items |-> [newItems EXCEPT ![sgi + 1].items = SpliceRemove(@, itemIndex)]]
        ELSE [ok |-> FALSE, moved |-> It(NULL), items |-> newItems]
    ELSE
        LET itemIndex == FindIndex(newItems, activeId) IN
        IF itemIndex > -1
        THEN [ok |-> TRUE, moved |-> newItems[itemIndex + 1],
              items |-> SpliceRemove(newItems, itemIndex)]
        ELSE [ok |-> FALSE, moved |-> It(NULL), items |-> newItems]

\* faulty variant of the insertion: the entry is pushed onto the end of the
\* target container, the index is not used
V3dInsertAtEnd(newItems, currentItems, itemToMove, tgt) ==
    IF tgt.p # NULL THEN
        LET tgi == FindIndex(newItems, tgt.p) IN
        IF tgi > -1 /\ newItems[tgi + 1].type = "group"
        THEN [newItems EXCEPT ![tgi + 1].items = Append(@, itemToMove)]
        ELSE currentItems
    ELSE Append(newItems, itemToMove)

\* "Insert into target"; currentItems is returned when the target group is gone
V3dInsert(newItems, currentItems, itemToMove, tgt) ==
    IF tgt.p # NULL THEN
        LET tgi == FindIndex(newItems, tgt.p) IN
        IF tgi > -1 /\ newItems[tgi + 1].type = "group" THEN
            LET safeTargetIndex == Max(0, Min(tgt.i, Len(newItems[tgi + 1].items))) IN
            [newItems EXCEPT ![tgi + 1].items = SpliceInsert(@, safeTargetIndex, itemToMove)]
        ELSE currentItems
    ELSE
        LET safeTargetIndex == Max(0, Min(tgt.i, Len(newItems))) IN
        SpliceInsert(newItems, safeTargetIndex, itemToMove)

\* faulty variant of the updater: the dragged entry is not looked up but
\* re-created at the hovered root position
V3dDragEndUpdateNoLookup(currentItems, activeId, over) ==
    SpliceInsert(FilterOutId(currentItems, activeId),
                 Max(0, FindIndex(currentItems, over.id)), It(activeId))

\* the setItems updater of handleDragEnd
V3dDragEndUpdate(currentItems, activeId, over) ==
    LET found == V3dfindItemOrGroup(currentItems, activeId) IN
    IF ~found.ok THEN currentItems
    ELSE
        LET draggedItem    == found.item
            sourceParentId == found.parentId
            tgt == V3dTarget(currentItems, over, draggedItem, sourceParentId)
        IN  IF tgt.p # NULL /\ draggedItem.type = "group" THEN currentItems
            ELSE IF sourceParentId = tgt.p THEN V3dMoveSame(currentItems, activeId, tgt)
            ELSE LET rem == V3dRemove(currentItems, activeId, sourceParentId) IN
                 IF ~rem.ok THEN currentItems
                 ELSE V3dInsert(rem.items, currentItems, rem.moved, tgt)

V3dhandleDragStart(id) ==
    /\ demo = "v3d"
    /\ dnd_active = NULL
    /\ gestures < MaxGestures
    /\ dnd_active' = id
    /\ v3d_activeId' = id
    /\ dnd_over' = NoOver                    \* setOverId(null)
    /\ UNCHANGED <<gestures, snapshot, v3d_items>>
    /\ FrameV3d

\* handleDragOver: setOverId(over ? over.id : null); overId is dnd_over.id
V3dhandleDragOver(over) ==
    /\ demo = "v3d"
    /\ dnd_active # NULL
    /\ dnd_over' = over
    /\ UNCHANGED <<gestures, dnd_active, snapshot, v3dvars>>
    /\ FrameV3d

\* the drop lands on the over last delivered to handleDragOver
V3dhandleDragEnd ==
    /\ demo = "v3d"
    /\ dnd_active # NULL
    /\ dnd_active' = NULL
    /\ v3d_activeId' = NULL
    /\ dnd_over' = NoOver
    /\ gestures' = gestures + 1
    /\ v3d_items' =
          IF dnd_over = NoOver \/ dnd_active = dnd_over.id
          THEN v3d_items
          ELSE V3dDragEndUpdate(v3d_items, dnd_active, dnd_over)
    /\ UNCHANGED snapshot
    /\ FrameV3d

\* onDragCancel
V3dhandleDragCancel ==
    /\ demo = "v3d"
    /\ dnd_active # NULL
    /\ dnd_active' = NULL
    /\ v3d_activeId' = NULL
    /\ dnd_over' = NoOver
    /\ gestures' = gestures + 1
    /\ UNCHANGED <<snapshot, v3d_items>>
    /\ FrameV3d

\* handleRemoveGroup: the Remove button of a group; it can be clicked while a
\* keyboard drag is in progress.  A hovered node that is unmounted by the
\* removal is no longer the over of the gesture.
V3dhandleRemoveGroup(groupId) ==
    /\ demo = "v3d"
    /\ v3d_items' = FilterOutId(v3d_items, groupId)
    /\ dnd_over' = IF dnd_over \in V3dOvers(FilterOutId(v3d_items, groupId))
                   THEN dnd_over ELSE NoOver
    /\ UNCHANGED <<gestures, dnd_active, snapshot, v3d_activeId>>
    /\ FrameV3d

NextV3d ==
    \/ \E id \in V3dIds(v3d_items) : V3dhandleDragStart(id)
    \/ \E over \in V3dOvers(v3d_items) \cup {NoOver} : V3dhandleDragOver(over)
    \/ V3dhandleDragEnd
    \/ V3dhandleDragCancel

(***************************************************************************)
(* v4.tsx, first demo (DragDropDemo): items: ItemOrGroup[]                 *)
(***************************************************************************)
\* groups createNewGroup may add in one run
V4aMaxNewGroups == 1

V4aItem(id)        == [id |-> id, type |-> "item", children |-> <<>>]
V4aGroup(id, kids) == [id |-> id, type |-> "group", children |-> kids]

\* the ids stand for the uuidv4() values drawn at construction
V4ainitialItems ==
    << V4aItem("item-a"),
       V4aGroup("group-1", <<V4aItem("nested-1"), V4aItem("nested-2")>>),
       V4aItem("item-b") >>

\* ids of the rendered SortableItem / SortableGroup nodes
V4aIds(items) ==
    {items[i].id : i \in 1..Len(items)}
    \cup UNION {{items[i].children[k].id : k \in 1..Len(items[i].children)} :
                   i \in 1..Len(items)}

V4aOvers(items) == {[id |-> x, type |-> NULL, groupId |-> NULL] : x \in V4aIds(items)}

\* draggedItem is set by the flatMap: a root item or a child of a group
V4aDraggedFound(items, activeId) ==
    \E i \in 1..Len(items) :
        \/ items[i].type = "item" /\ items[i].id = activeId
        \/ items[i].type = "group" /\ FindIndex(items[i].children, activeId) # -1

\* "Remove the item from its previous position" (flatMap)
V4aRemoveDragged(items, activeId) ==
    LET Keep(e) == ~(e.type = "item" /\ e.id = activeId)
        stripped == [i \in 1..Len(items) |->
                       IF items[i].type = "group"
                          /\ FindIndex(items[i].children, activeId) # -1
                       THEN [items[i] EXCEPT !.children =
                                SpliceRemove(@, FindIndex(@, activeId))]
                       ELSE items[i]]
    IN  SelectSeq(stripped, Keep)

\* "Drop inside a group" (map with push)
V4aDropInside(newItems, dragged, overId) ==
    [i \in 1..Len(newItems) |->
        IF newItems[i].type = "group" /\ newItems[i].id = overId
        THEN [newItems[i] EXCEPT !.children = Append(@, dragged)]
        ELSE newItems[i]]

\* "Drop between items": only when over is not a root entry of newItems
V4aDropBetween(newItems, items, dragged, overId) ==
    IF ~(\E i \in 1..Len(newItems) : newItems[i].id = overId)
    THEN SpliceInsert(newItems, FindIndex(items, overId), dragged)
    ELSE newItems

\* the value handleDragEnd passes to setItems
V4aDragEndItems(items, activeId, overId) ==
    IF ~V4aDraggedFound(items, activeId) THEN items
    ELSE V4aDropBetween(
             V4aDropInside(V4aRemoveDragged(items, activeId), V4aItem(activeId), overId),
             items, V4aItem(activeId), overId)

\* what the array `items` of the render reads after handleDragEnd ran: the
\* root array is copied ([...items], flatMap, map) but the group entries are
\* shared with newItems, and entry.children.splice / entry.children.push
\* write to their children arrays in place
V4aInputAfterDragEnd(items, activeId, overId) ==
    IF ~V4aDraggedFound(items, activeId) THEN items
    ELSE LET spliced == [i \in 1..Len(items) |->
                           IF items[i].type = "group"
                              /\ FindIndex(items[i].children, activeId) # -1
                           THEN [items[i] EXCEPT !.children =
                                    SpliceRemove(@, FindIndex(@, activeId))]
                           ELSE items[i]]
         IN  [i \in 1..Len(spliced) |->
                IF spliced[i].type = "group" /\ spliced[i].id = overId
                THEN [spliced[i] EXCEPT !.children = Append(@, V4aItem(activeId))]
                ELSE spliced[i]]

V4ahandleDragStart(id) ==
    /\ demo = "v4a"
    /\ dnd_active = NULL
    /\ gestures < MaxGestures
    /\ dnd_active' = id
    /\ v4a_activeId' = id
    /\ v4a_inputNow' = <<>>
    /\ UNCHANGED <<gestures, dnd_over, snapshot, v4a_items, v4a_uuid>>
    /\ FrameV4a

V4ahandleDragEnd(over) ==
    /\ demo = "v4a"
    /\ dnd_active # NULL
    /\ dnd_active' = NULL
    /\ v4a_activeId' = NULL
    /\ gestures' = gestures + 1
    /\ v4a_items' =
          IF over = NoOver \/ dnd_active = over.id
          THEN v4a_items
          ELSE V4aDragEndItems(v4a_items, dnd_active, over.id)
    /\ v4a_inputNow' =
          IF over = NoOver \/ dnd_active = over.id
          THEN v4a_items
          ELSE V4aInputAfterDragEnd(v4a_items, dnd_active, over.id)
    /\ UNCHANGED <<dnd_over, snapshot, v4a_uuid>>
    /\ FrameV4a

V4acreateNewGroup ==
    /\ demo = "v4a"
    /\ dnd_active = NULL
    /\ v4a_uuid < V4aMaxNewGroups
    /\ v4a_uuid' = v4a_uuid + 1
    /\ v4a_items' = Append(v4a_items, V4aGroup("group-uuid-" \o ToString(v4a_uuid + 1), <<>>))
    /\ v4a_inputNow' = <<>>
    /\ UNCHANGED <<dndvars, v4a_activeId>>
    /\ FrameV4a

V4aremoveGroup(id) ==
    /\ demo = "v4a"
    /\ dnd_active = NULL
    /\ LET Keep(entry) == entry.id # id \/ entry.type # "group"
       IN  v4a_items' = SelectSeq(v4a_items, Keep)
    /\ v4a_inputNow' = <<>>
    /\ UNCHANGED <<dndvars, v4a_activeId, v4a_uuid>>
    /\ FrameV4a

\* entries whose Remove button is rendered
V4aGroupIds(items) == {items[i].id : i \in {j \in 1..Len(items) : items[j].type = "group"}}

NextV4a ==
    \/ \E id \in V4aIds(v4a_items) : V4ahandleDragStart(id)
    \/ \E over \in V4aOvers(v4a_items) \cup {NoOver} : V4ahandleDragEnd(over)
    \/ V4acreateNewGroup
    \/ \E id \in V4aGroupIds(v4a_items) : V4aremoveGroup(id)

(***************************************************************************)
(* v3.tsx, first demo (DragAndDropDemo with spacers): items, groups and    *)
(* mainList are separate states; a move out of or into a group re-creates  *)
(* the item under a generated id                                           *)
(***************************************************************************)
V3aItem(id)        == [id |-> id]
V3aGroup(id, kids) == [id |-> id, items |-> kids]
V3aEntry(id, type) == [id |-> id, type |-> type]

V3ainitialItems ==
    << V3aItem("standalone-item-1"), V3aItem("standalone-item-2"),
       V3aItem("standalone-item-3"), V3aItem("standalone-item-4") >>

V3ainitialGroups ==
    << V3aGroup("group-1", <<>>),
       V3aGroup("group-2", <<V3aItem("group-2-item-1"), V3aItem("group-2-item-2")>>) >>

V3ainitialMainList ==
    << V3aEntry("standalone-item-1", "item"), V3aEntry("group-1", "group"),
       V3aEntry("standalone-item-2", "item"), V3aEntry("group-2", "group"),
       V3aEntry("standalone-item-3", "item"), V3aEntry("standalone-item-4", "item") >>

V3aNoIndicator == [id |-> NULL, type |-> NULL]

\* generateId(): the n-th value drawn (Date.now() and Math.random() never repeat)
generateId(n) == "id-" \o ToString(n)

\* items of the group entry `id` as Group renders them (findGroupById(id)?.items || [])
V3aGroupItems(groups, id) ==
    IF FindIndex(groups, id) # -1 THEN groups[FindIndex(groups, id) + 1].items ELSE <<>>

\* ids of the draggable nodes: mainList entries and the items of rendered groups
V3aIds(groups, mainList) ==
    {mainList[i].id : i \in 1..Len(mainList)}
    \cup UNION {{V3aGroupItems(groups, mainList[i].id)[k].id :
                    k \in 1..Len(V3aGroupItems(groups, mainList[i].id))} :
                 i \in {j \in 1..Len(mainList) : mainList[j].type = "group"}}

V3aSpacerIds(mainList) ==
    {"spacer-before-" \o mainList[i].id : i \in 1..Len(mainList)} \cup {"spacer-after-last"}

V3aOvers(groups, mainList) ==
    {[id |-> x, type |-> NULL, groupId |-> NULL] :
        x \in V3aIds(groups, mainList) \cup V3aSpacerIds(mainList)}

\* overId.startsWith('spacer-')
V3aIsSpacer(mainList, overId) == overId \in V3aSpacerIds(mainList)

\* overId.replace('spacer-before-', '')
V3aSpacerTarget(mainList, overId) ==
    (CHOOSE e \in Range(mainList) : overId = "spacer-before-" \o e.id).id

V3afindGroupContainingItem(groups, itemId) ==
    IF \E i \in 1..Len(groups) : FindIndex(groups[i].items, itemId) # -1
    THEN groups[CHOOSE i \in 1..Len(groups) :
                    /\ FindIndex(groups[i].items, itemId) # -1
                    /\ \A j \in 1..(i - 1) : FindIndex(groups[j].items, itemId) = -1].id
    ELSE NULL

V3aIsGroup(groups, id) == FindIndex(groups, id) # -1

\* groups.map: the group `groupId` without the item `activeId`
V3aRemoveFromGroup(groups, groupId, activeId) ==
    [i \in 1..Len(groups) |->
        IF groups[i].id = groupId
        THEN [groups[i] EXCEPT !.items = FilterOutId(@, activeId)]
        ELSE groups[i]]

\* groups.map: the group `groupId` with newItem appended
V3aAddToGroup(groups, groupId, newItem) ==
    [i \in 1..Len(groups) |->
        IF groups[i].id = groupId
        THEN [groups[i] EXCEPT !.items = Append(@, newItem)]
        ELSE groups[i]]

\* the drop indicator handleDragOver computes
V3aIndicator(groups, mainList, activeId, activeType, over) ==
    IF over = NoOver \/ activeId = over.id THEN V3aNoIndicator
    ELSE IF V3aIsSpacer(mainList, over.id) THEN
        IF over.id = "spacer-after-last"
        THEN [id |-> "last", type |-> "after"]
        ELSE [id |-> V3aSpacerTarget(mainList, over.id), type |-> "before"]
    ELSE IF activeType = "item" /\ V3aIsGroup(groups, over.id)
            /\ V3afindGroupContainingItem(groups, activeId) # over.id
    THEN [id |-> over.id, type |-> "inside"]
    ELSE [id |-> over.id, type |-> "after"]

\* handleDragEnd, "Handle spacers specially"; st is [items, groups, mainList],
\* the result adds used (ids generated) and reset (the session state was cleared)
V3aDropOnSpacer(st, activeId, activeType, overId, n) ==
    LET targetIndex == IF overId = "spacer-after-last"
                       THEN Len(st.mainList)
                       ELSE FindIndex(st.mainList, V3aSpacerTarget(st.mainList, overId))
        activeGroupId == V3afindGroupContainingItem(st.groups, activeId)
    IN  IF activeType = "item" /\ activeGroupId # NULL THEN
            LET newItemId == "standalone-item-" \o generateId(n + 1) IN
            [items    |-> Append(st.items, V3aItem(newItemId)),
             groups   |-> V3aRemoveFromGroup(st.groups, activeGroupId, activeId),
             mainList |-> SpliceInsert(st.mainList, targetIndex, V3aEntry(newItemId, "item")),
             used |-> 1, reset |-> TRUE]
        ELSE
            LET activeIndex == FindIndex(st.mainList, activeId) IN
            IF activeIndex = -1
            THEN [items |-> st.items, groups |-> st.groups, mainList |-> st.mainList,
                  used |-> 0, reset |-> FALSE]
            ELSE
                LET movedItem == st.mainList[activeIndex + 1]
                    adjustedTargetIndex ==
                        IF activeIndex < targetIndex THEN targetIndex - 1 ELSE targetIndex
                IN  [items |-> st.items, groups |-> st.groups,
                     mainList |-> SpliceInsert(SpliceRemove(st.mainList, activeIndex),
                                               adjustedTargetIndex, movedItem),
                     used |-> 0, reset |-> TRUE]

\* handleDragEnd, "Handle dropping onto a group for insertion".  Both setGroups
\* calls map the groups of the render, so the second call replaces the first.
V3aDropInside(st, activeId, overId, n) ==
    LET activeGroupId == V3afindGroupContainingItem(st.groups, activeId) IN
    IF V3aIsGroup(st.groups, overId) /\ activeGroupId # overId THEN
        LET newItem == V3aItem(overId \o "-item-" \o generateId(n + 1)) IN
        IF activeGroupId # NULL
        THEN [items |-> st.items,
              groups |-> V3aAddToGroup(st.groups, overId, newItem),
              mainList |-> st.mainList, used |-> 1, reset |-> TRUE]
        ELSE LET KeepEntry(e) == ~(e.type = "item" /\ e.id = activeId) IN
             [items |-> FilterOutId(st.items, activeId),
              groups |-> V3aAddToGroup(st.groups, overId, newItem),
              mainList |-> SelectSeq(st.mainList, KeepEntry), used |-> 1, reset |-> TRUE]
    ELSE [items |-> st.items, groups |-> st.groups, mainList |-> st.mainList,
          used |-> 0, reset |-> TRUE]

\* handleDragEnd, "Handle reordering in the main list for non-spacer targets"
V3aDropOnEntry(st, activeId, activeType, overId, n) ==
    LET activeIndex == FindIndex(st.mainList, activeId)
        overIndex   == FindIndex(st.mainList, overId)
        moved == IF activeIndex # -1 /\ overIndex # -1
                 THEN arrayMove(st.mainList, activeIndex, overIndex)
                 ELSE st.mainList
        activeGroupId == V3afindGroupContainingItem(st.groups, activeId)
        isOverItem == \E i \in 1..Len(st.mainList) :
                          st.mainList[i].type = "item" /\ st.mainList[i].id = overId
    IN  IF activeType = "item" /\ activeGroupId # NULL /\ isOverItem THEN
            LET newItemId == "standalone-item-" \o generateId(n + 1) IN
            [items    |-> Append(st.items, V3aItem(newItemId)),
             groups   |-> V3aRemoveFromGroup(st.groups, activeGroupId, activeId),
             mainList |-> SpliceInsert(st.mainList, FindIndex(st.mainList, overId) + 1,
                                       V3aEntry(newItemId, "item")),
             used |-> 1, reset |-> TRUE]
        ELSE [items |-> st.items, groups |-> st.groups, mainList |-> moved,
              used |-> 0, reset |-> TRUE]

\* handleDragEnd as a whole
V3aDragEnd(st, activeId, activeType, dropIndicator, over, n) ==
    IF over = NoOver \/ activeId = over.id
    THEN [items |-> st.items, groups |-> st.groups, mainList |-> st.mainList,
          used |-> 0, reset |-> TRUE]
    ELSE IF V3aIsSpacer(st.mainList, over.id)
    THEN V3aDropOnSpacer(st, activeId, activeType, over.id, n)
    ELSE IF activeType = "item" /\ dropIndicator.type = "inside"
    THEN V3aDropInside(st, activeId, over.id, n)
    ELSE V3aDropOnEntry(st, activeId, activeType, over.id, n)

V3ahandleDragStart(id) ==
    /\ demo = "v3a"
    /\ dnd_active = NULL
    /\ gestures < MaxGestures
    /\ dnd_active' = id
    /\ dnd_over' = NoOver
    /\ v3a_activeId' = id
    /\ v3a_activeType' = IF V3aIsGroup(v3a_groups, id) THEN "group" ELSE "item"
    /\ v3a_dropIndicator' = V3aNoIndicator
    /\ UNCHANGED <<gestures, snapshot, v3a_items, v3a_groups, v3a_mainList, v3a_nextId>>
    /\ FrameV3a

V3ahandleDragOver(over) ==
    /\ demo = "v3a"
    /\ dnd_active # NULL
    /\ dnd_over' = over
    /\ v3a_dropIndicator' =
          V3aIndicator(v3a_groups, v3a_mainList, dnd_active, v3a_activeType, over)
    /\ UNCHANGED <<gestures, dnd_active, snapshot, v3a_items, v3a_groups, v3a_mainList,
                   v3a_activeId, v3a_activeType, v3a_nextId>>
    /\ FrameV3a

\* the drop lands on the over last delivered to handleDragOver
V3ahandleDragEnd ==
    /\ demo = "v3a"
    /\ dnd_active # NULL
    /\ LET r == V3aDragEnd([items |-> v3a_items, groups |-> v3a_groups,
                            mainList |-> v3a_mainList],
                           dnd_active, v3a_activeType, v3a_dropIndicator,
                           dnd_over, v3a_nextId)
       IN  /\ v3a_items' = r.items
           /\ v3a_groups' = r.groups
           /\ v3a_mainList' = r.mainList
           /\ v3a_nextId' = v3a_nextId + r.used
           /\ v3a_activeId' = IF r.reset THEN NULL ELSE v3a_activeId
           /\ v3a_activeType' = IF r.reset THEN NULL ELSE v3a_activeType
           /\ v3a_dropIndicator' = IF r.reset THEN V3aNoIndicator ELSE v3a_dropIndicator
    /\ dnd_active' = NULL
    /\ dnd_over' = NoOver
    /\ gestures' = gestures + 1
    /\ UNCHANGED snapshot
    /\ FrameV3a

\* the DndContext is mounted without onDragCancel: a cancelled drag calls no
\* handler
V3adragCancel ==
    /\ demo = "v3a"
    /\ dnd_active # NULL
    /\ dnd_active' = NULL
    /\ dnd_over' = NoOver
    /\ gestures' = gestures + 1
    /\ UNCHANGED <<snapshot, v3avars>>
    /\ FrameV3a

NextV3a ==
    \/ \E id \in V3aIds(v3a_groups, v3a_mainList) : V3ahandleDragStart(id)
    \/ \E over \in V3aOvers(v3a_groups, v3a_mainList) \cup {NoOver} : V3ahandleDragOver(over)
    \/ V3ahandleDragEnd

(***************************************************************************)
(* v1.tsx: root items and groups are two separate lists; handleDragOver    *)
(* moves an item into the hovered group while the drag is in progress      *)
(***************************************************************************)
V1Item(id)        == [id |-> id, type |-> "ITEM", items |-> <<>>]
V1Group(id, kids) == [id |-> id, type |-> "GROUP", items |-> kids]

V1initialItems == << V1Item("item-1"), V1Item("item-2"), V1Item("item-3") >>

V1initialGroups ==
    << V1Group("group-1", <<V1Item("item-4"), V1Item("item-5")>>),
       V1Group("group-2", <<V1Item("item-6")>>) >>

\* the parentId prop of the rendered SortableItem (active.data.current.parentId)
V1parentId(groups, id) ==
    IF \E i \in 1..Len(groups) : FindIndex(groups[i].items, id) # -1
    THEN groups[CHOOSE i \in 1..Len(groups) :
                    /\ FindIndex(groups[i].items, id) # -1
                    /\ \A j \in 1..(i - 1) : FindIndex(groups[j].items, id) = -1].id
    ELSE NULL

\* active.data.current.type
V1dataType(groups, id) == IF FindIndex(groups, id) # -1 THEN "GROUP" ELSE "ITEM"

V1Ids(items, groups) ==
    {items[i].id : i \in 1..Len(items)}
    \cup {groups[i].id : i \in 1..Len(groups)}
    \cup UNION {{groups[i].items[k].id : k \in 1..Len(groups[i].items)} : i \in 1..Len(groups)}

V1Overs(items, groups) ==
    {[id |-> x, type |-> V1dataType(groups, x), groupId |-> V1parentId(groups, x)] :
        x \in V1Ids(items, groups)}

\* groups.map: the group gid without the item id
V1WithoutItem(groups, gid, id) ==
    [i \in 1..Len(groups) |->
        IF groups[i].id = gid
        THEN [groups[i] EXCEPT !.items = FilterOutId(@, id)]
        ELSE groups[i]]

\* the item is found among the render's items or in the render's parent group
V1ActiveItemFound(items, groups, activeParentId, activeId) ==
    IF activeParentId # NULL
    THEN /\ FindIndex(groups, activeParentId) # -1
         /\ FindIndex(groups[FindIndex(groups, activeParentId) + 1].items, activeId) # -1
    ELSE FindIndex(items, activeId) # -1

\* handleDragOver: [items, groups, activeParentId] after the queued updaters ran
V1DragOver(items, groups, activeParentId, activeId, over) ==
    LET same == [items |-> items, groups |-> groups, activeParentId |-> activeParentId] IN
    IF over = NoOver THEN same
    ELSE IF V1dataType(groups, activeId) # "ITEM" \/ activeId = over.id THEN same
    ELSE IF FindIndex(groups, over.id) = -1 THEN same
    ELSE
        LET removed == IF activeParentId # NULL
                       THEN V1WithoutItem(groups, activeParentId, activeId)
                       ELSE groups
            found == V1ActiveItemFound(items, groups, activeParentId, activeId)
            added == [i \in 1..Len(removed) |->
                        IF removed[i].id = over.id
                           /\ FindIndex(removed[i].items, activeId) = -1
                           /\ found
                        THEN [removed[i] EXCEPT !.items = Append(@, V1Item(activeId))]
                        ELSE removed[i]]
        IN  [items |-> FilterOutId(items, activeId),
             groups |-> added,
             activeParentId |-> over.id]

\* handleDragEnd: [items, groups] committed by the drop
V1DragEnd(items, groups, activeId, over) ==
    LET same == [items |-> items, groups |-> groups]
        activeParent == V1parentId(groups, activeId)
        overId == over.id
        isOverGroup == FindIndex(groups, overId) # -1
    IN
    IF over = NoOver \/ activeId = overId THEN same
    ELSE IF V1dataType(groups, activeId) = "ITEM" /\ activeParent # NULL THEN
        LET parentGroup == groups[FindIndex(groups, activeParent) + 1] IN
        IF isOverGroup THEN
            LET oldIndex == FindIndex(parentGroup.items, activeId)
                newIndex == FindIndex(parentGroup.items, overId)
            IN  IF oldIndex # -1 /\ newIndex # -1
                THEN [items |-> items,
                      groups |-> [i \in 1..Len(groups) |->
                                    IF groups[i].id = activeParent
                                    THEN [groups[i] EXCEPT !.items =
                                             arrayMove(@, oldIndex, newIndex)]
                                    ELSE groups[i]]]
                ELSE same
        ELSE
            LET overItemIndex == FindIndex(items, overId) IN
            [items |-> IF FindIndex(parentGroup.items, activeId) # -1
                       THEN (IF overItemIndex # -1
                             THEN SpliceInsert(items, overItemIndex, V1Item(activeId))
                             ELSE Append(items, V1Item(activeId)))
                       ELSE items,
             groups |-> V1WithoutItem(groups, activeParent, activeId)]
    ELSE IF FindIndex(items, activeId) # -1 THEN
        LET oldIndex == FindIndex(items, activeId)
            newIndex == FindIndex(items, overId)
        IN  IF ~isOverGroup /\ oldIndex # -1 /\ newIndex # -1
            THEN [items |-> arrayMove(items, oldIndex, newIndex), groups |-> groups]
            ELSE same
    ELSE IF FindIndex(groups, activeId) # -1 THEN
        LET oldIndex == FindIndex(groups, activeId)
            newIndex == FindIndex(groups, overId)
        IN  IF oldIndex # -1 /\ newIndex # -1
            THEN [items |-> items, groups |-> arrayMove(groups, oldIndex, newIndex)]
            ELSE same
    ELSE same

V1handleDragStart(id) ==
    /\ demo = "v1"
    /\ dnd_active = NULL
    /\ gestures < MaxGestures
    /\ dnd_active' = id
    /\ dnd_over' = NoOver
    /\ snapshot' = <<v1_items, v1_groups>>
    /\ v1_activeParentId' =
          IF V1parentId(v1_groups, id) # NULL
          THEN V1parentId(v1_groups, id) ELSE v1_activeParentId
    /\ UNCHANGED <<gestures, v1_items, v1_groups>>
    /\ FrameV1

V1handleDragOver(over) ==
    /\ demo = "v1"
    /\ dnd_active # NULL
    /\ dnd_over' = over
    /\ LET r == V1DragOver(v1_items, v1_groups, v1_activeParentId, dnd_active, over)
       IN  /\ v1_items' = r.items
           /\ v1_groups' = r.groups
           /\ v1_activeParentId' = r.activeParentId
    /\ UNCHANGED <<gestures, dnd_active, snapshot>>
    /\ FrameV1

\* the drop lands on the over last delivered to handleDragOver
V1handleDragEnd ==
    /\ demo = "v1"
    /\ dnd_active # NULL
    /\ LET r == V1DragEnd(v1_items, v1_groups, dnd_active, dnd_over)
       IN  /\ v1_items' = r.items
           /\ v1_groups' = r.groups
    /\ v1_activeParentId' = NULL
    /\ dnd_active' = NULL
    /\ dnd_over' = NoOver
    /\ snapshot' = NoSnapshot
    /\ gestures' = gestures + 1
    /\ FrameV1

NextV1 ==
    \/ \E id \in V1Ids(v1_items, v1_groups) : V1handleDragStart(id)
    \/ \E over \in V1Overs(v1_items, v1_groups) \cup {NoOver} : V1handleDragOver(over)
    \/ V1handleDragEnd

(***************************************************************************)
(* unnamed/part_002: the v1 demo on a single rootItems list (items and     *)
(* groups interleaved); handleDragOver moves the item into the hovered     *)
(* group while the drag is in progress                                     *)
(***************************************************************************)
P2initialRootItems ==
    << V1Item("item-1"), V1Item("item-2"),
       V1Group("group-1", <<V1Item("item-3"), V1Item("item-4")>>),
       V1Item("item-5"),
       V1Group("group-2", <<V1Item("item-6")>>),
       V1Item("item-7") >>

\* useMemo: rootItems.filter((item) => item.type === 'GROUP')
P2groups(rootItems) ==
    LET IsGroup(e) == e.type = "GROUP" IN SelectSeq(rootItems, IsGroup)

\* useMemo: rootItems.filter((item) => item.type === 'ITEM')
P2standaloneItems(rootItems) ==
    LET IsItem(e) == e.type = "ITEM" IN SelectSeq(rootItems, IsItem)

\* findGroupContainingItem(itemId)?.id, also the parentId prop of a nested item
P2findGroupContainingItem(rootItems, itemId) == V1parentId(P2groups(rootItems), itemId)

\* findItemById(id)?.type
P2findItemType(rootItems, id) ==
    IF FindIndex(rootItems, id) # -1 THEN rootItems[FindIndex(rootItems, id) + 1].type
    ELSE IF P2findGroupContainingItem(rootItems, id) # NULL THEN "ITEM"
    ELSE UNDEFINED

P2Ids(rootItems) ==
    {rootItems[i].id : i \in 1..Len(rootItems)}
    \cup UNION {{rootItems[i].items[k].id : k \in 1..Len(rootItems[i].items)} :
                   i \in 1..Len(rootItems)}

P2Overs(rootItems) ==
    {[id |-> x, type |-> P2findItemType(rootItems, x),
      groupId |-> P2findGroupContainingItem(rootItems, x)] : x \in P2Ids(rootItems)}

\* rootItems.map: the group gid without the item id
P2WithoutItem(rootItems, gid, id) ==
    [i \in 1..Len(rootItems) |->
        IF rootItems[i].type = "GROUP" /\ rootItems[i].id = gid
        THEN [rootItems[i] EXCEPT !.items = FilterOutId(@, id)]
        ELSE rootItems[i]]

\* handleDragOver: [rootItems, activeParentId] after both queued updaters ran
P2DragOver(rootItems, activeParentId, activeId, over) ==
    LET same == [rootItems |-> rootItems, activeParentId |-> activeParentId] IN
    IF over = NoOver THEN same
    ELSE IF activeId = over.id THEN same
    ELSE IF P2findItemType(rootItems, activeId) # "ITEM" THEN same
    ELSE IF P2findItemType(rootItems, over.id) # "GROUP" THEN same
    ELSE
        LET removed ==
                IF activeParentId # NULL
                THEN P2WithoutItem(rootItems, activeParentId, activeId)
                ELSE LET Keep(e) == ~(e.type = "ITEM" /\ e.id = activeId)
                     IN  SelectSeq(rootItems, Keep)
            found ==
                IF activeParentId # NULL
                THEN /\ FindIndex(P2groups(rootItems), activeParentId) # -1
                     /\ FindIndex(P2groups(rootItems)[
                            FindIndex(P2groups(rootItems), activeParentId) + 1].items,
                            activeId) # -1
                ELSE FindIndex(P2standaloneItems(rootItems), activeId) # -1
            added == [i \in 1..Len(removed) |->
                        IF removed[i].type = "GROUP" /\ removed[i].id = over.id
                           /\ found /\ FindIndex(removed[i].items, activeId) = -1
                        THEN [removed[i] EXCEPT !.items = Append(@, V1Item(activeId))]
                        ELSE removed[i]]
        IN  [rootItems |-> added, activeParentId |-> over.id]

\* handleDragEnd: the rootItems committed by the drop
P2DragEnd(rootItems, activeId, over) ==
    LET overId == over.id
        activeParent == P2findGroupContainingItem(rootItems, activeId)
        groups == P2groups(rootItems)
    IN
    IF over = NoOver \/ activeId = overId THEN rootItems
    ELSE IF P2findItemType(rootItems, activeId) = "ITEM" /\ activeParent # NULL THEN
        LET parentGroup == groups[FindIndex(groups, activeParent) + 1]
            oldIndex == FindIndex(parentGroup.items, activeId)
            newIndex == FindIndex(parentGroup.items, overId)
        IN  IF newIndex # -1 THEN
                IF oldIndex # -1
                THEN [i \in 1..Len(rootItems) |->
                        IF rootItems[i].type = "GROUP" /\ rootItems[i].id = parentGroup.id
                        THEN [rootItems[i] EXCEPT !.items = arrayMove(@, oldIndex, newIndex)]
                        ELSE rootItems[i]]
                ELSE rootItems
            ELSE IF FindIndex(groups, overId) = -1 THEN
                LET updatedRootItems == P2WithoutItem(rootItems, parentGroup.id, activeId)
                    overIndex == FindIndex(updatedRootItems, overId)
                IN  IF oldIndex # -1
                    THEN (IF overIndex # -1
                          THEN SubSeq(updatedRootItems, 1, overIndex)
                               \o <<V1Item(activeId)>>
                               \o SubSeq(updatedRootItems, overIndex + 1, Len(updatedRootItems))
                          ELSE Append(updatedRootItems, V1Item(activeId)))
                    ELSE updatedRootItems
            ELSE rootItems
    ELSE
        LET activeIndex == FindIndex(rootItems, activeId)
            overIndex   == FindIndex(rootItems, overId)
        IN  IF activeIndex # -1 /\ overIndex # -1
            THEN arrayMove(rootItems, activeIndex, overIndex)
            ELSE rootItems

P2handleDragStart(id) ==
    /\ demo = "p2"
    /\ dnd_active = NULL
    /\ gestures < MaxGestures
    /\ dnd_active' = id
    /\ dnd_over' = NoOver
    /\ snapshot' = p2_rootItems
    /\ p2_activeParentId' =
          IF P2findGroupContainingItem(p2_rootItems, id) # NULL
          THEN P2findGroupContainingItem(p2_rootItems, id) ELSE p2_activeParentId
    /\ UNCHANGED <<gestures, p2_rootItems>>
    /\ FrameP2

P2handleDragOver(over) ==
    /\ demo = "p2"
    /\ dnd_active # NULL
    /\ dnd_over' = over
    /\ LET r == P2DragOver(p2_rootItems, p2_activeParentId, dnd_active, over)
       IN  /\ p2_rootItems' = r.rootItems
           /\ p2_activeParentId' = r.activeParentId
    /\ UNCHANGED <<gestures, dnd_active, snapshot>>
    /\ FrameP2

\* the drop lands on the over last delivered to handleDragOver
P2handleDragEnd ==
    /\ demo = "p2"
    /\ dnd_active # NULL
    /\ p2_rootItems' = P2DragEnd(p2_rootItems, dnd_active, dnd_over)
    /\ p2_activeParentId' = NULL
    /\ dnd_active' = NULL
    /\ dnd_over' = NoOver
    /\ snapshot' = NoSnapshot
    /\ gestures' = gestures + 1
    /\ FrameP2

\* findIndex((item) => item.type === 'GROUP' && item.id === groupId)
FindGROUPIndex(items, groupId) ==
    LET hits == {i \in 1..Len(items) : items[i].type = "GROUP" /\ items[i].id = groupId}
    IN  IF hits = {} THEN -1
        ELSE (CHOOSE i \in hits : \A j \in hits : i <= j) - 1

\* handleRemoveGroup: the updater passed to setRootItems
P2RemoveGroup(currentItems, groupId) ==
    LET groupIndex == FindGROUPIndex(currentItems, groupId) IN
    IF groupIndex = -1 THEN currentItems
    ELSE SubSeq(currentItems, 1, groupIndex)
         \o currentItems[groupIndex + 1].items
         \o SubSeq(currentItems, groupIndex + 2, Len(currentItems))

\* the Remove button of a rendered group
P2handleRemoveGroup(groupId) ==
    /\ demo = "p2"
    /\ dnd_active = NULL
    /\ p2_rootItems' = P2RemoveGroup(p2_rootItems, groupId)
    /\ UNCHANGED <<dndvars, p2_activeParentId>>
    /\ FrameP2

NextP2 ==
    \/ \E id \in P2Ids(p2_rootItems) : P2handleDragStart(id)
    \/ \E over \in P2Overs(p2_rootItems) \cup {NoOver} : P2handleDragOver(over)
    \/ P2handleDragEnd
    \/ \E i \in 1..Len(P2groups(p2_rootItems)) :
          P2handleRemoveGroup(P2groups(p2_rootItems)[i].id)

(***************************************************************************)
(* v6.tsx: elements: ElementType[] with a dropTarget preview and the       *)
(* lastClientOffset ref                                                    *)
(***************************************************************************)
\* groups addGroup may add in one run
V6MaxNewGroups == 1

\* the ids stand for the values createItem() / createGroup() draw
V6initialElements ==
    << It("item-1"), It("item-2"), Gr("group-1", <<>>), It("item-3"), It("item-4") >>

V6NoElement   == [id |-> NULL, type |-> NULL, items |-> <<>>]
V6NoFromGroup == [itemId |-> NULL, groupId |-> NULL]
V6NoTarget    == [id |-> NULL, type |-> NULL]
V6NoOffset    == [set |-> FALSE, y |-> 0]

\* bounding boxes of the hovered node and tops of the dragged node, in px
V6Rects == {[top |-> 0, height |-> 40]}
V6Offsets == {5, 15, 35}

V6Ids(elements) == V3dIds(elements)

\* handleDragOver reads the dragged node's top only when over is a root group
V6OffsetsRead(elements, over) ==
    IF FindGroupIndex(elements, over.id) # -1 THEN V6Offsets ELSE {5}

V6Overs(elements) == {[id |-> x, type |-> NULL, groupId |-> NULL] : x \in V6Ids(elements)}

\* the group of elements holding the item, NULL when none does
V6GroupOf(elements, itemId) ==
    IF \E i \in 1..Len(elements) :
           elements[i].type = "group" /\ FindIndex(elements[i].items, itemId) # -1
    THEN elements[CHOOSE i \in 1..Len(elements) :
                      /\ elements[i].type = "group"
                      /\ FindIndex(elements[i].items, itemId) # -1
                      /\ \A j \in 1..(i - 1) :
                            ~(elements[j].type = "group"
                              /\ FindIndex(elements[j].items, itemId) # -1)].id
    ELSE NULL

\* determineDropPositionForGroup (the write to lastClientOffset is in V6DragOver);
\* Math.min(overRect.height * 0.25, 20) is kept exact by comparing four times
\* each side: topRegionSize4 = 4 * topRegionSize
determineDropPositionForGroup(overRect, activeOffsetTop) ==
    LET topRegionSize4    == Min(overRect.height, 4 * 20)
        bottomRegionSize4 == Min(overRect.height, 4 * 20)
    IN  IF 4 * activeOffsetTop < 4 * overRect.top + topRegionSize4 THEN "before-element"
        ELSE IF 4 * activeOffsetTop
                  > 4 * (overRect.top + overRect.height) - bottomRegionSize4
        THEN "after-element"
        ELSE "inside-group"

\* handleDragOver; st is [elements, activeItemFromGroup, dropTarget, lastClientOffset]
V6DragOver(st, activeId, over, overRect, activeOffsetTop) ==
    IF over = NoOver \/ activeId = over.id THEN [st EXCEPT !.dropTarget = V6NoTarget]
    ELSE
    LET overId == over.id
        overElementIndex == FindIndex(st.elements, overId)
    IN
    IF overElementIndex = -1 THEN
        IF V6GroupOf(st.elements, overId) # NULL
        THEN [st EXCEPT !.dropTarget = [id |-> overId, type |-> "inside-group"]]
        ELSE st
    ELSE
    LET overElement == st.elements[overElementIndex + 1]
        st1 == IF overElement.type = "group"
               THEN [st EXCEPT
                       !.dropTarget = [id |-> overId,
                                       type |-> determineDropPositionForGroup(
                                                    overRect, activeOffsetTop)],
                       !.lastClientOffset = [set |-> TRUE, y |-> activeOffsetTop]]
               ELSE [st EXCEPT
                       !.dropTarget =
                          [id |-> overId,
                           type |-> IF st.lastClientOffset.set
                                       /\ ~(st.lastClientOffset.y
                                              < overRect.top + overRect.height \div 2)
                                    THEN "after-element" ELSE "before-element"]]
        groupId == st.activeItemFromGroup.groupId
        itemId  == st.activeItemFromGroup.itemId
        sourceGroupIndex == FindIndex(st.elements, groupId)
    IN
    IF st.activeItemFromGroup = V6NoFromGroup THEN st1
    ELSE IF sourceGroupIndex = -1 THEN st1
    ELSE IF FindIndex(st.elements[sourceGroupIndex + 1].items, itemId) = -1 THEN st1
    ELSE IF overElement.type = "group" /\ overId # groupId
            /\ st.dropTarget.type = "inside-group"
    THEN [st1 EXCEPT
            !.elements = [st.elements EXCEPT
                            ![sourceGroupIndex + 1].items = FilterOutId(@, itemId),
                            ![overElementIndex + 1].items = Append(@, It(itemId))],
            !.activeItemFromGroup = [itemId |-> itemId, groupId |-> overId]]
    ELSE st1

\* handleDragEnd, "If we're dragging an item from a group"
V6DropFromGroup(elements, fromGroup, dropTarget, overId) ==
    LET groupId == fromGroup.groupId
        itemId  == fromGroup.itemId
        sourceGroupIndex == FindIndex(elements, groupId)
        overIsInSameGroup ==
            \E i \in 1..Len(elements) :
                /\ elements[i].id = groupId /\ elements[i].type = "group"
                /\ (elements[i].id = overId \/ FindIndex(elements[i].items, overId) # -1)
    IN
    IF sourceGroupIndex = -1 THEN elements
    ELSE
    LET sourceGroup == elements[sourceGroupIndex + 1]
        overIndex   == FindIndex(elements, overId)
        newElements == [elements EXCEPT ![sourceGroupIndex + 1].items = FilterOutId(@, itemId)]
    IN
    IF overIsInSameGroup THEN
        LET oldIndex == FindIndex(sourceGroup.items, itemId)
            newIndex == FindIndex(sourceGroup.items, overId)
        IN  IF overId # groupId /\ oldIndex # -1 /\ newIndex # -1
            THEN [elements EXCEPT ![sourceGroupIndex + 1].items =
                      arrayMove(@, oldIndex, newIndex)]
            ELSE elements
    ELSE IF FindIndex(sourceGroup.items, itemId) = -1 THEN elements
    ELSE IF overIndex = -1 THEN elements
    ELSE IF elements[overIndex + 1].type = "group" /\ dropTarget.type = "inside-group"
    THEN [newElements EXCEPT ![overIndex + 1].items = Append(@, It(itemId))]
    ELSE IF dropTarget.type = "before-element"
    THEN SpliceInsert(newElements, overIndex, It(itemId))
    ELSE SpliceInsert(newElements, overIndex + 1, It(itemId))

\* handleDragEnd, "If dragging an item to a group" (targetGroupIndex # -1)
V6DropOnGroup(elements, dropTarget, activeId, overId) ==
    LET itemIndex == FindIndex(elements, activeId) IN
    IF itemIndex = -1 THEN elements
    ELSE
    LET item        == elements[itemIndex + 1]
        newElements == SpliceRemove(elements, itemIndex)
        targetIndex == FindIndex(newElements, overId)
    IN
    IF dropTarget.type = "inside-group" THEN
        IF FindGroupIndex(newElements, overId) # -1
        THEN [newElements EXCEPT ![targetIndex + 1].items = Append(@, item)]
        ELSE elements
    ELSE IF targetIndex = -1 THEN newElements
    ELSE IF dropTarget.type = "before-element"
    THEN SpliceInsert(newElements, targetIndex, item)
    ELSE SpliceInsert(newElements, targetIndex + 1, item)

\* faulty variant of handleDragEnd: the item-to-group branch is taken for a
\* dragged group as well
V6DragEndAnyType(elements, activeElement, fromGroup, dropTarget, activeId, over) ==
    IF over = NoOver \/ dropTarget = V6NoTarget THEN elements
    ELSE IF fromGroup # V6NoFromGroup
    THEN V6DropFromGroup(elements, fromGroup, dropTarget, over.id)
    ELSE IF FindGroupIndex(elements, over.id) # -1
    THEN V6DropOnGroup(elements, dropTarget, activeId, over.id)
    ELSE elements

\* handleDragEnd: the elements committed by the drop
V6DragEnd(elements, activeElement, fromGroup, dropTarget, activeId, over) ==
    IF over = NoOver \/ dropTarget = V6NoTarget THEN elements
    ELSE IF fromGroup # V6NoFromGroup
    THEN V6DropFromGroup(elements, fromGroup, dropTarget, over.id)
    ELSE IF activeElement.type = "item" /\ FindGroupIndex(elements, over.id) # -1
    THEN V6DropOnGroup(elements, dropTarget, activeId, over.id)
    ELSE
        LET oldIndex == FindIndex(elements, activeId)
            newIndex == FindIndex(elements, over.id)
        IN  IF activeId # over.id /\ oldIndex # -1 /\ newIndex # -1
            THEN arrayMove(elements, oldIndex, newIndex)
            ELSE elements

V6handleDragStart(id) ==
    /\ demo = "v6"
    /\ dnd_active = NULL
    /\ gestures < MaxGestures
    /\ dnd_active' = id
    /\ dnd_over' = NoOver
    /\ snapshot' = v6_elements
    /\ IF FindIndex(v6_elements, id) # -1
       THEN /\ v6_activeElement' = v6_elements[FindIndex(v6_elements, id) + 1]
            /\ UNCHANGED v6_activeItemFromGroup
       ELSE IF V6GroupOf(v6_elements, id) # NULL
       THEN /\ v6_activeElement' = It(id)
            /\ v6_activeItemFromGroup' =
                  [itemId |-> id, groupId |-> V6GroupOf(v6_elements, id)]
       ELSE UNCHANGED <<v6_activeElement, v6_activeItemFromGroup>>
    /\ UNCHANGED <<gestures, v6_elements, v6_dropTarget, v6_lastClientOffset, v6_created>>
    /\ FrameV6

V6handleDragOver(over, overRect, activeOffsetTop) ==
    /\ demo = "v6"
    /\ dnd_active # NULL
    /\ dnd_over' = over
    /\ LET r == V6DragOver([elements |-> v6_elements,
                            activeItemFromGroup |-> v6_activeItemFromGroup,
                            dropTarget |-> v6_dropTarget,
                            lastClientOffset |-> v6_lastClientOffset],
                           dnd_active, over, overRect, activeOffsetTop)
       IN  /\ v6_elements' = r.elements
           /\ v6_activeItemFromGroup' = r.activeItemFromGroup
           /\ v6_dropTarget' = r.dropTarget
           /\ v6_lastClientOffset' = r.lastClientOffset
    /\ UNCHANGED <<gestures, dnd_active, snapshot, v6_activeElement, v6_created>>
    /\ FrameV6

\* the drop lands on the over last delivered to handleDragOver
V6handleDragEnd ==
    /\ demo = "v6"
    /\ dnd_active # NULL
    /\ v6_elements' = V6DragEnd(v6_elements, v6_activeElement, v6_activeItemFromGroup,
                                v6_dropTarget, dnd_active, dnd_over)
    /\ v6_activeElement' = V6NoElement
    /\ v6_activeItemFromGroup' = V6NoFromGroup
    /\ v6_dropTarget' = V6NoTarget
    /\ dnd_active' = NULL
    /\ dnd_over' = NoOver
    /\ snapshot' = NoSnapshot
    /\ gestures' = gestures + 1
    /\ UNCHANGED <<v6_lastClientOffset, v6_created>>
    /\ FrameV6

\* the DndContext is mounted without onDragCancel: a cancelled drag (Escape,
\* window resize, hidden tab) ends the library's drag and calls no handler
V6dragCancel ==
    /\ demo = "v6"
    /\ dnd_active # NULL
    /\ dnd_active' = NULL
    /\ dnd_over' = NoOver
    /\ snapshot' = NoSnapshot
    /\ gestures' = gestures + 1
    /\ UNCHANGED <<v6_elements, v6_activeElement, v6_activeItemFromGroup, v6_dropTarget,
                   v6_lastClientOffset, v6_created>>
    /\ FrameV6

V6addGroup ==
    /\ demo = "v6"
    /\ dnd_active = NULL
    /\ v6_created < V6MaxNewGroups
    /\ v6_created' = v6_created + 1
    /\ v6_elements' = Append(v6_elements, Gr("group-new-" \o ToString(v6_created + 1), <<>>))
    /\ UNCHANGED <<dndvars, v6_activeElement, v6_activeItemFromGroup, v6_dropTarget,
                   v6_lastClientOffset>>
    /\ FrameV6

\* newElements.splice(start, 0, ...xs)
RECURSIVE SpliceInsertAll(_, _, _)
SpliceInsertAll(arr, start, xs) ==
    IF xs = <<>> THEN arr
    ELSE SpliceInsertAll(SpliceInsert(arr, start, Head(xs)), start + 1, Tail(xs))

\* removeGroup: the array passed to setElements, elements when no such group
V6RemoveGroupElements(elements, groupId) ==
    IF FindGroupIndex(elements, groupId) = -1 THEN elements
    ELSE LET groupIndex == FindIndex(elements, groupId)
             group      == elements[groupIndex + 1]
         IN  SpliceInsertAll(SpliceRemove(elements, groupIndex), groupIndex, group.items)

V6removeGroup(groupId) ==
    /\ demo = "v6"
    /\ dnd_active = NULL
    /\ FindGroupIndex(v6_elements, groupId) # -1
    /\ v6_elements' = V6RemoveGroupElements(v6_elements, groupId)
    /\ UNCHANGED <<dndvars, v6_activeElement, v6_activeItemFromGroup, v6_dropTarget,
                   v6_lastClientOffset, v6_created>>
    /\ FrameV6

\* removeItemFromGroup: the remove button of an item inside a group; it can
\* be clicked while a keyboard drag is in progress
V6removeItemFromGroup(groupId, itemId) ==
    /\ demo = "v6"
    /\ LET newElements ==
               [i \in 1..Len(v6_elements) |->
                   IF v6_elements[i].id = groupId /\ v6_elements[i].type = "group"
                   THEN [v6_elements[i] EXCEPT !.items = FilterOutId(@, itemId)]
                   ELSE v6_elements[i]]
       IN  /\ v6_elements' = newElements
           /\ dnd_over' = IF dnd_over \in V6Overs(newElements) THEN dnd_over ELSE NoOver
    /\ UNCHANGED <<gestures, dnd_active, snapshot, v6_activeElement, v6_activeItemFromGroup,
                   v6_dropTarget, v6_lastClientOffset, v6_created>>
    /\ FrameV6

\* removeGroup clicked while a keyboard drag is in progress
V6removeGroupWhileDragging(groupId) ==
    /\ demo = "v6"
    /\ dnd_active # NULL
    /\ FindGroupIndex(v6_elements, groupId) # -1
    /\ v6_elements' = V6RemoveGroupElements(v6_elements, groupId)
    /\ dnd_over' = IF dnd_over \in V6Overs(V6RemoveGroupElements(v6_elements, groupId))
                   THEN dnd_over ELSE NoOver
    /\ UNCHANGED <<gestures, dnd_active, snapshot, v6_activeElement, v6_activeItemFromGroup,
                   v6_dropTarget, v6_lastClientOffset, v6_created>>
    /\ FrameV6

NextV6 ==
    \/ \E id \in V6Ids(v6_elements) : V6handleDragStart(id)
    \/ \E over \in V6Overs(v6_elements) \cup {NoOver}, overRect \in V6Rects :
          \E activeOffsetTop \in V6OffsetsRead(v6_elements, over) :
              V6handleDragOver(over, overRect, activeOffsetTop)
    \/ V6handleDragEnd
    \/ V6addGroup
    \/ \E g \in V6Ids(v6_elements) : V6removeGroup(g)

(***************************************************************************)
(* v3.tsx, third demo: nested ListItem[] with the "dragging out of a group" *)
(* special case and plain arrayMove for same-container moves               *)
(***************************************************************************)
V3cinitialItems == V3dinitialItems

\* "Determine Target Parent and Index": [p |-> targetParentId, i |-> targetIndex]
V3cTarget(currentItems, over, draggedItem, sourceParentId) ==
    LET overId == over.id
        isOverGroupItem      == over.type = "groupItem" /\ over.groupId # NULL
        isOverGroupContainer == over.type = "group"
        isOverTopLevelItem   == over.type = "item"
        isDraggingOutOfGroup ==
            sourceParentId # NULL /\ ~isOverGroupItem /\ ~isOverGroupContainer
        raw ==
          IF isDraggingOutOfGroup THEN
              LET sourceGroupIndex == FindIndex(currentItems, sourceParentId)
                  currentOverIndex == FindIndex(currentItems, overId)
              IN  [p |-> NULL,
                   i |-> IF sourceGroupIndex # -1
                         THEN IF currentOverIndex # -1 /\ currentOverIndex <= sourceGroupIndex
                              THEN sourceGroupIndex
                              ELSE IF currentOverIndex # -1
                                      /\ currentOverIndex > sourceGroupIndex
                              THEN currentOverIndex
                              ELSE sourceGroupIndex + 1
                         ELSE Len(currentItems)]
          ELSE IF isOverGroupItem THEN
              LET gi == FindGroupIndex(currentItems, over.groupId) IN
              [p |-> over.groupId,
               i |-> IF gi # -1 THEN FindIndex(currentItems[gi + 1].items, overId) ELSE -1]
          ELSE IF isOverGroupContainer THEN
              LET gi == FindGroupIndex(currentItems, overId) IN
              IF gi # -1
              THEN IF draggedItem.type = "item"
                   THEN [p |-> overId, i |-> Len(currentItems[gi + 1].items)]
                   ELSE [p |-> NULL, i |-> FindIndex(currentItems, overId)]
              ELSE [p |-> NULL, i |-> -1]
          ELSE IF isOverTopLevelItem THEN
              [p |-> NULL, i |-> FindIndex(currentItems, overId)]
          ELSE
              LET topLevelIndex == FindIndex(currentItems, overId) IN
              IF topLevelIndex # -1 THEN [p |-> NULL, i |-> topLevelIndex]
              ELSE [p |-> NULL, i |-> Len(currentItems)]
    IN  IF raw.i = -1
        THEN IF raw.p # NULL
             THEN [p |-> raw.p,
                   i |-> IF FindGroupIndex(currentItems, raw.p) # -1
                         THEN Len(currentItems[FindGroupIndex(currentItems, raw.p) + 1].items)
                         ELSE 0]
             ELSE [p |-> NULL, i |-> Len(currentItems)]
        ELSE raw

\* "Use arrayMove if moving within the SAME container"
V3cMoveSame(currentItems, activeId, tgt) ==
    IF tgt.p = NULL THEN
        LET oldIndex == FindIndex(currentItems, activeId) IN
        IF oldIndex # -1 THEN arrayMove(currentItems, oldIndex, tgt.i) ELSE currentItems
    ELSE
        LET groupIndex == FindIndex(currentItems, tgt.p) IN
        IF groupIndex # -1 /\ currentItems[groupIndex + 1].type = "group" THEN
            LET group    == currentItems[groupIndex + 1]
                oldIndex == FindIndex(group.items, activeId)
            IN  IF oldIndex # -1
                THEN [currentItems EXCEPT ![groupIndex + 1].items =
                          arrayMove(group.items, oldIndex, tgt.i)]
                ELSE currentItems
        ELSE currentItems

\* "Remove from source": [ok, items, moved]
V3cRemove(newItems, activeId, sourceParentId) ==
    V3dRemove(newItems, activeId, sourceParentId)

\* "Insert into target"
V3cInsert(newItems, currentItems, itemToMove, tgt) ==
    V3dInsert(newItems, currentItems, itemToMove, tgt)

\* faulty variant of the updater: without the "Prevent nesting groups" return
V3cDragEndUpdateNesting(currentItems, activeId, over) ==
    LET found == V3dfindItemOrGroup(currentItems, activeId) IN
    IF ~found.ok THEN currentItems
    ELSE
        LET tgt == V3cTarget(currentItems, over, found.item, found.parentId)
        IN  IF found.parentId = tgt.p THEN V3cMoveSame(currentItems, activeId, tgt)
            ELSE LET rem == V3cRemove(currentItems, activeId, found.parentId) IN
                 IF ~rem.ok THEN currentItems
                 ELSE V3cInsert(rem.items, currentItems, rem.moved, tgt)

\* the setItems updater of handleDragEndCallback
V3cDragEndUpdate(currentItems, activeId, over) ==
    LET found == V3dfindItemOrGroup(currentItems, activeId) IN
    IF ~found.ok THEN currentItems
    ELSE
        LET draggedItem    == found.item
            sourceParentId == found.parentId
            tgt == V3cTarget(currentItems, over, draggedItem, sourceParentId)
        IN  IF tgt.p # NULL /\ draggedItem.type = "group" THEN currentItems
            ELSE IF sourceParentId = tgt.p THEN V3cMoveSame(currentItems, activeId, tgt)
            ELSE LET rem == V3cRemove(currentItems, activeId, sourceParentId) IN
                 IF ~rem.ok THEN currentItems
                 ELSE V3cInsert(rem.items, currentItems, rem.moved, tgt)

V3chandleDragStart(id) ==
    /\ demo = "v3c"
    /\ dnd_active = NULL
    /\ gestures < MaxGestures
    /\ dnd_active' = id
    /\ v3c_activeId' = id
    /\ dnd_over' = NoOver                    \* setOverId(null)
    /\ UNCHANGED <<gestures, snapshot, v3c_items>>
    /\ FrameV3c

\* handleDragOver: setOverId(over ? over.id : null); overId is dnd_over.id
V3chandleDragOver(over) ==
    /\ demo = "v3c"
    /\ dnd_active # NULL
    /\ dnd_over' = over
    /\ UNCHANGED <<gestures, dnd_active, snapshot, v3cvars>>
    /\ FrameV3c

\* the drop lands on the over last delivered to handleDragOver
V3chandleDragEndCallback ==
    /\ demo = "v3c"
    /\ dnd_active # NULL
    /\ dnd_active' = NULL
    /\ v3c_activeId' = NULL
    /\ dnd_over' = NoOver
    /\ gestures' = gestures + 1
    /\ v3c_items' =
          IF dnd_over = NoOver \/ dnd_active = dnd_over.id
          THEN v3c_items
          ELSE V3cDragEndUpdate(v3c_items, dnd_active, dnd_over)
    /\ UNCHANGED snapshot
    /\ FrameV3c

\* onDragCancel
V3chandleDragCancel ==
    /\ demo = "v3c"
    /\ dnd_active # NULL
    /\ dnd_active' = NULL
    /\ v3c_activeId' = NULL
    /\ dnd_over' = NoOver
    /\ gestures' = gestures + 1
    /\ UNCHANGED <<snapshot, v3c_items>>
    /\ FrameV3c

NextV3c ==
    \/ \E id \in V3dIds(v3c_items) : V3chandleDragStart(id)
    \/ \E over \in V3dOvers(v3c_items) \cup {NoOver} : V3chandleDragOver(over)
    \/ V3chandleDragEndCallback
    \/ V3chandleDragCancel

(***************************************************************************)
(* v10a-columns.tsx: a left column of items, a right column of items and   *)
(* groups, and a drop zone above and below every group                     *)
(***************************************************************************)
V10ItemIds  == {"item-1", "item-2", "item-3", "item-4", "item-5", "item-6"}
V10GroupIds == {"group-1", "group-2", "group-3"}

\* a group and the ids of its items (the Item objects never change)
V10Group(id, itemIds) == [id |-> id, items |-> itemIds]

V10initialGroups ==
    << V10Group("group-1", <<>>), V10Group("group-2", <<>>), V10Group("group-3", <<>>) >>

V10initialLeft  == <<"item-1", "item-2">>
V10initialRight ==
    <<"group-1", "item-3", "group-2", "item-4", "group-3", "item-5", "item-6">>

\* useMemo dropZones: one above and one below each group
V10dropZones(groups) ==
    {[id |-> "dropzone-" \o groups[i].id \o "-" \o p, groupId |-> groups[i].id,
      position |-> p] : i \in 1..Len(groups), p \in {"top", "bottom"}}

V10ZoneIds == {z.id : z \in V10dropZones(V10initialGroups)}

\* dropZones.find((dz) => dz.id === overId)
V10findZone(groups, overId) == CHOOSE z \in V10dropZones(groups) : z.id = overId

\* getItemType: the prefix of the id decides
getItemType(id) ==
    IF id \in V10ItemIds THEN "item"
    ELSE IF id \in V10GroupIds THEN "group"
    ELSE IF id \in V10ZoneIds THEN "dropZone"
    ELSE NULL

\* some group holds the item
V10InAGroup(groups, id) == \E i \in 1..Len(groups) : Includes(groups[i].items, id)

getItemColumn(left, right, groups, id) ==
    IF Includes(left, id) THEN "left"
    ELSE IF Includes(right, id) THEN "right"
    ELSE IF \E i \in 1..Len(groups) :
                Includes(right, groups[i].id) /\ Includes(groups[i].items, id)
    THEN "right"
    ELSE NULL

V10NoItem    == [id |-> NULL, type |-> NULL]
V10NoPreview == [targetId |-> NULL, targetType |-> NULL, insertPosition |-> NULL,
                 addToGroup |-> FALSE, column |-> NULL]

V10Preview(targetId, targetType, insertPosition, addToGroup, column) ==
    [targetId |-> targetId, targetType |-> targetType, insertPosition |-> insertPosition,
     addToGroup |-> addToGroup, column |-> column]

\* the sortable nodes rendered during a drag
V10Ids(left, right, groups) ==
    Range(left) \cup Range(right)
    \cup UNION {Range(groups[i].items) : i \in {j \in 1..Len(groups) : Includes(right, groups[j].id)}}

V10Overs(left, right, groups) ==
    {[id |-> x, type |-> NULL, groupId |-> NULL] :
        x \in V10Ids(left, right, groups)
              \cup {z.id : z \in {y \in V10dropZones(groups) : Includes(right, y.groupId)}}}

\* groups.map: every group without the item
V10WithoutItem(groups, activeId) ==
    [i \in 1..Len(groups) |-> [groups[i] EXCEPT !.items = FilterOut(@, activeId)]]

\* handleDragOver: [z |-> overDropZone, p |-> previewPosition]
V10DragOver(left, right, groups, previewPosition, activeId, over) ==
    IF over = NoOver THEN [z |-> NULL, p |-> V10NoPreview]
    ELSE
    LET overId     == over.id
        activeType == getItemType(activeId)
        overType   == getItemType(overId)
        overColumn == IF overType = "dropZone" THEN "right"
                      ELSE getItemColumn(left, right, groups, overId)
    IN
    IF activeType = NULL \/ overType = NULL \/ overColumn = NULL
    THEN [z |-> NULL, p |-> V10NoPreview]
    ELSE IF overType = "dropZone" THEN
        LET dropZone == V10findZone(groups, overId) IN
        [z |-> overId,
         p |-> IF activeType \in {"item", "group"}
               THEN V10Preview(dropZone.groupId, "group",
                               IF dropZone.position = "top" THEN "before" ELSE "after",
                               FALSE, "right")
               ELSE previewPosition]
    ELSE IF activeType = "item" THEN
        IF overType = "item" THEN
            LET columnItems == IF overColumn = "left" THEN left ELSE right IN
            IF Includes(columnItems, activeId) /\ Includes(columnItems, overId)
            THEN [z |-> NULL,
                  p |-> V10Preview(overId, "item",
                            IF IndexOf(columnItems, activeId) < IndexOf(columnItems, overId)
                            THEN "after" ELSE "before",
                            FALSE, overColumn)]
            ELSE IF ~Includes(left, activeId) /\ ~Includes(right, activeId)
                    /\ \E i \in 1..Len(groups) :
                          Includes(groups[i].items, activeId) /\ Includes(groups[i].items, overId)
            THEN LET g == groups[CHOOSE i \in 1..Len(groups) :
                                     /\ Includes(groups[i].items, activeId)
                                     /\ Includes(groups[i].items, overId)]
                 IN  [z |-> NULL,
                      p |-> V10Preview(overId, "item",
                                IF IndexOf(g.items, activeId) < IndexOf(g.items, overId)
                                THEN "after" ELSE "before",
                                FALSE, "right")]
            ELSE [z |-> NULL, p |-> V10Preview(overId, "item", "before", FALSE, overColumn)]
        ELSE IF overType = "group" /\ overColumn = "right"
        THEN [z |-> NULL, p |-> V10Preview(overId, "group", UNDEFINED, TRUE, "right")]
        ELSE [z |-> NULL, p |-> previewPosition]
    ELSE IF activeType = "group" /\ Includes(right, activeId) /\ Includes(right, overId)
    THEN [z |-> NULL,
          p |-> V10Preview(overId, overType,
                    IF IndexOf(right, activeId) < IndexOf(right, overId)
                    THEN "after" ELSE "before",
                    FALSE, "right")]
    ELSE [z |-> NULL, p |-> previewPosition]

\* handleDragEnd, "1a: Over a drop zone"
V10ItemOnZone(left, right, groups, activeId, overId) ==
    LET dropZone   == V10findZone(groups, overId)
        newLeft    == IF Includes(left, activeId) THEN FilterOut(left, activeId) ELSE left
        newRight   == IF ~Includes(left, activeId) /\ Includes(right, activeId)
                      THEN FilterOut(right, activeId) ELSE right
        groupIndex == IndexOf(newRight, dropZone.groupId)
    IN  [left   |-> newLeft,
         right  |-> IF dropZone.position = "top"
                    THEN SpliceInsert(newRight, groupIndex, activeId)
                    ELSE SpliceInsert(newRight, groupIndex + 1, activeId),
         groups |-> V10WithoutItem(groups, activeId)]

\* handleDragEnd, "1b: Over a group"
V10ItemOnGroup(left, right, groups, activeId, overId) ==
    [left   |-> IF Includes(left, activeId) THEN FilterOut(left, activeId) ELSE left,
     right  |-> IF ~Includes(left, activeId) /\ Includes(right, activeId)
                THEN FilterOut(right, activeId) ELSE right,
     groups |-> [i \in 1..Len(groups) |->
                    IF groups[i].id = overId
                    THEN [groups[i] EXCEPT !.items = Append(FilterOut(@, activeId), activeId)]
                    ELSE [groups[i] EXCEPT !.items = FilterOut(@, activeId)]]]

\* handleDragEnd, "1c: Over another item"
V10ItemOnItem(left, right, groups, activeId, overId, sourceColumn, targetColumn) ==
    IF sourceColumn # targetColumn THEN
        LET left1   == IF sourceColumn = "left" THEN FilterOut(left, activeId) ELSE left
            right1  == IF sourceColumn = "right" /\ Includes(right, activeId)
                       THEN FilterOut(right, activeId) ELSE right
            groups1 == IF sourceColumn = "right" /\ ~Includes(right, activeId)
                       THEN V10WithoutItem(groups, activeId) ELSE groups
        IN  [left   |-> IF targetColumn = "left"
                        THEN SpliceInsert(left1, IndexOf(left, overId), activeId)
                        ELSE left1,
             right  |-> IF targetColumn = "right"
                        THEN SpliceInsert(right1, IndexOf(right, overId), activeId)
                        ELSE right1,
             groups |-> groups1]
    ELSE IF targetColumn = "left" THEN
        [left   |-> IF IndexOf(left, activeId) # -1 /\ IndexOf(left, overId) # -1
                    THEN arrayMove(left, IndexOf(left, activeId), IndexOf(left, overId))
                    ELSE left,
         right |-> right, groups |-> groups]
    ELSE IF targetColumn = "right" THEN
        IF Includes(right, activeId) /\ Includes(right, overId)
        THEN [left |-> left,
              right |-> arrayMove(right, IndexOf(right, activeId), IndexOf(right, overId)),
              groups |-> groups]
        ELSE [left |-> left, right |-> right,
              groups |-> [i \in 1..Len(groups) |->
                            IF Includes(groups[i].items, activeId)
                               /\ Includes(groups[i].items, overId)
                            THEN [groups[i] EXCEPT !.items =
                                     arrayMove(@, IndexOf(@, activeId), IndexOf(@, overId))]
                            ELSE groups[i]]]
    ELSE [left |-> left, right |-> right, groups |-> groups]

\* handleDragEnd, "Case 2: Dragging a group", over a drop zone
V10GroupOnZone(right, groups, activeId, overId) ==
    LET dropZone         == V10findZone(groups, overId)
        activeIndex      == IndexOf(right, activeId)
        targetGroupIndex == IndexOf(right, dropZone.groupId)
        insertIndex      == IF targetGroupIndex > activeIndex
                            THEN targetGroupIndex - 1 ELSE targetGroupIndex
    IN  IF activeIndex # -1 /\ targetGroupIndex # -1
        THEN IF dropZone.position = "top"
             THEN SpliceInsert(SpliceRemove(right, activeIndex), insertIndex, activeId)
             ELSE SpliceInsert(SpliceRemove(right, activeIndex), insertIndex + 1, activeId)
        ELSE right

\* handleDragEnd: [left, right, groups] committed by the drop
V10DragEnd(left, right, groups, overDropZone, activeId, over) ==
    LET same == [left |-> left, right |-> right, groups |-> groups] IN
    IF over = NoOver \/ activeId = over.id THEN same
    ELSE
    LET overId       == over.id
        activeType   == getItemType(activeId)
        overType     == getItemType(overId)
        sourceColumn == getItemColumn(left, right, groups, activeId)
        targetColumn == IF overType = "dropZone" THEN "right"
                        ELSE getItemColumn(left, right, groups, overId)
    IN
    IF activeType = NULL \/ overType = NULL \/ targetColumn = NULL THEN same
    ELSE IF activeType = "item" THEN
        IF overType = "dropZone"
        THEN V10ItemOnZone(left, right, groups, activeId, overId)
        ELSE IF overType = "group" /\ targetColumn = "right"
        THEN IF overDropZone = NULL
             THEN V10ItemOnGroup(left, right, groups, activeId, overId)
             ELSE same
        ELSE IF overType = "item"
        THEN V10ItemOnItem(left, right, groups, activeId, overId, sourceColumn, targetColumn)
        ELSE same
    ELSE IF activeType = "group" /\ Includes(right, activeId) THEN
        IF overType = "dropZone"
        THEN [same EXCEPT !.right = V10GroupOnZone(right, groups, activeId, overId)]
        ELSE IF Includes(right, overId)
        THEN [same EXCEPT !.right =
                 arrayMove(right, IndexOf(right, activeId), IndexOf(right, overId))]
        ELSE same
    ELSE same

V10handleDragStart(id) ==
    /\ demo = "v10a"
    /\ dnd_active = NULL
    /\ gestures < MaxGestures
    /\ dnd_active' = id
    /\ dnd_over' = NoOver
    /\ v10a_activeId' = id
    /\ v10a_activeItem' = [id |-> id, type |-> getItemType(id)]
    /\ v10a_activeColumn' = getItemColumn(v10a_leftColumnItems, v10a_rightColumnItems,
                                          v10a_groups, id)
    /\ UNCHANGED <<gestures, snapshot, v10a_groups, v10a_leftColumnItems,
                   v10a_rightColumnItems, v10a_overDropZone, v10a_previewPosition>>
    /\ FrameV10a

V10handleDragOver(over) ==
    /\ demo = "v10a"
    /\ dnd_active # NULL
    /\ dnd_over' = over
    /\ LET r == V10DragOver(v10a_leftColumnItems, v10a_rightColumnItems, v10a_groups,
                            v10a_previewPosition, dnd_active, over)
       IN  /\ v10a_overDropZone' = r.z
           /\ v10a_previewPosition' = r.p
    /\ UNCHANGED <<gestures, dnd_active, snapshot, v10a_groups, v10a_leftColumnItems,
                   v10a_rightColumnItems, v10a_activeId, v10a_activeItem, v10a_activeColumn>>
    /\ FrameV10a

\* the drop lands on the over last delivered to handleDragOver
V10handleDragEnd ==
    /\ demo = "v10a"
    /\ dnd_active # NULL
    /\ LET r == V10DragEnd(v10a_leftColumnItems, v10a_rightColumnItems, v10a_groups,
                           v10a_overDropZone, dnd_active, dnd_over)
       IN  /\ v10a_leftColumnItems' = r.left
           /\ v10a_rightColumnItems' = r.right
           /\ v10a_groups' = r.groups
    /\ v10a_activeId' = NULL
    /\ v10a_activeItem' = V10NoItem
    /\ v10a_activeColumn' = NULL
    /\ v10a_overDropZone' = NULL
    /\ v10a_previewPosition' = V10NoPreview
    /\ dnd_active' = NULL
    /\ dnd_over' = NoOver
    /\ gestures' = gestures + 1
    /\ UNCHANGED snapshot
    /\ FrameV10a

NextV10a ==
    \/ \E id \in V10Ids(v10a_leftColumnItems, v10a_rightColumnItems, v10a_groups) :
          V10handleDragStart(id)
    \/ \E over \in V10Overs(v10a_leftColumnItems, v10a_rightColumnItems, v10a_groups)
                   \cup {NoOver} : V10handleDragOver(over)
    \/ V10handleDragEnd

(***************************************************************************)
(* v2.tsx: rootItems: RootItem[] with "after group" and "end of list"      *)
(* droppables; handleDragOver only writes the preview states.  The groups  *)
(* memo, findItemById and findGroupContainingItem are written as in        *)
(* part_002 (P2groups, P2findItemType, P2findGroupContainingItem).         *)
(***************************************************************************)
V2initialRootItems ==
    << V1Item("item-1"), V1Item("item-2"),
       V1Group("group-1", <<V1Item("item-3"), V1Item("item-4")>>),
       V1Item("item-5"),
       V1Group("group-2", <<V1Item("item-6")>>) >>

\* the reset value of dropPreview
V2NoPreview == [targetId |-> NULL, targetType |-> NULL, position |-> "after", parentId |-> NULL]

V2Preview(targetId, targetType, position, parentId) ==
    [targetId |-> targetId, targetType |-> targetType, position |-> position,
     parentId |-> parentId]

\* the droppable nodes: items and groups (data {type, parentId}), one
\* `${group.id}-after` area per group (data {type: 'AFTER_GROUP', groupId})
\* and 'end-of-list'
V2Overs(rootItems) ==
    P2Overs(rootItems)
    \cup {[id |-> P2groups(rootItems)[i].id \o "-after", type |-> "AFTER_GROUP",
           groupId |-> P2groups(rootItems)[i].id] : i \in 1..Len(P2groups(rootItems))}
    \cup {[id |-> "end-of-list", type |-> "END_OF_LIST", groupId |-> NULL]}

\* handleDragOver: [overGroup, overAfterArea, dropPreview] after the handler;
\* before is overPos < overCenter
V2DragOver(rootItems, st, activeId, over, before) ==
    LET activeType == P2findItemType(rootItems, activeId)
        reset == [overGroup |-> NULL, overAfterArea |-> NULL, dropPreview |-> V2NoPreview]
        side == IF before THEN "before" ELSE "after"
    IN
    IF over = NoOver \/ activeType = UNDEFINED THEN st
    ELSE IF over.id = "end-of-list"
    THEN [reset EXCEPT !.dropPreview = V2Preview("end-of-list", "ITEM", "after", NULL)]
    ELSE IF over.type = "AFTER_GROUP"
    THEN [reset EXCEPT !.overAfterArea = over.groupId,
                       !.dropPreview = V2Preview(over.groupId, "AFTER_GROUP", "after", NULL)]
    ELSE IF activeType = "ITEM" /\ over.type = "GROUP"
    THEN [reset EXCEPT !.overGroup = over.id,
                       !.dropPreview = V2Preview(over.id, "GROUP", "inside", NULL)]
    ELSE IF activeType = "GROUP" /\ over.type = "GROUP"
    THEN [reset EXCEPT !.overGroup = over.id,
                       !.dropPreview = V2Preview(over.id, "GROUP", side, NULL)]
    ELSE IF activeType = "ITEM" /\ over.type = "ITEM"
    THEN [reset EXCEPT !.overGroup = over.groupId,
                       !.dropPreview = V2Preview(over.id, "ITEM", side, over.groupId)]
    ELSE reset

\* the dragged Item object (items carry no state but their id)
V2DraggedItem(activeId) == V1Item(activeId)

\* items.filter((item) => item.id !== active.id)
V2WithoutRoot(items, activeId) ==
    LET Keep(e) == e.id # activeId IN SelectSeq(items, Keep)

\* "Handle dropping at the end of the list"
V2DropAtEnd(items, activeId) ==
    LET activeParent == P2findGroupContainingItem(items, activeId) IN
    IF P2findItemType(items, activeId) = "ITEM" /\ activeParent # NULL
    THEN Append(P2WithoutItem(items, activeParent, activeId), V2DraggedItem(activeId))
    ELSE arrayMove(items, FindIndex(items, activeId), Len(items) - 1)

\* "Handle dropping after a group"
V2DropAfterGroup(items, activeId, groupId) ==
    LET activeParent == P2findGroupContainingItem(items, activeId) IN
    IF P2findItemType(items, activeId) = "ITEM" THEN
        LET groupIndex == FindIndex(items, groupId)
            itemsWithoutDragged ==
                IF activeParent # NULL
                THEN P2WithoutItem(items, activeParent, activeId)
                ELSE V2WithoutRoot(items, activeId)
        IN  IF groupIndex = -1 THEN items
            ELSE SubSeq(itemsWithoutDragged, 1, Min(groupIndex + 1, Len(itemsWithoutDragged)))
                 \o <<V2DraggedItem(activeId)>>
                 \o SubSeq(itemsWithoutDragged, groupIndex + 2, Len(itemsWithoutDragged))
    ELSE
        LET oldIndex == FindIndex(items, activeId)
            targetGroupIndex == FindIndex(items, groupId)
            newIndex == IF targetGroupIndex < oldIndex
                        THEN targetGroupIndex + 1 ELSE targetGroupIndex
        IN  IF oldIndex = -1 \/ targetGroupIndex = -1 THEN items
            ELSE arrayMove(items, oldIndex, newIndex)

\* "Handle Group sorting - direct group-to-group"
V2GroupSort(items, activeId, over) ==
    LET oldIndex == FindIndex(items, activeId)
        overType == P2findItemType(items, over.id)
        newIndex == FindIndex(items, over.id)
    IN  IF overType = "GROUP" \/ (overType = "ITEM" /\ over.groupId = NULL)
        THEN (IF oldIndex # -1 /\ newIndex # -1
              THEN arrayMove(items, oldIndex, newIndex) ELSE items)
        ELSE items

\* items.map: the group gid with x spliced in after the item overId
\* (newItems.splice(targetIndex + 1, 0, draggedItem))
V2InsertAfterInGroup(items, gid, overId, x) ==
    [i \in 1..Len(items) |->
        IF items[i].type = "GROUP" /\ items[i].id = gid
        THEN [items[i] EXCEPT !.items = SpliceInsert(@, FindIndex(@, overId) + 1, x)]
        ELSE items[i]]

\* "Handle Item sorting within root": an item released over an item
V2ItemOnItem(items, activeId, over) ==
    LET activeParent == P2findGroupContainingItem(items, activeId)
        overParent   == P2findGroupContainingItem(items, over.id)
        draggedItem  == V2DraggedItem(activeId)
    IN
    IF activeParent = NULL /\ overParent = NULL
    THEN arrayMove(items, FindIndex(items, activeId), FindIndex(items, over.id))
    ELSE IF activeParent # NULL /\ overParent # NULL /\ activeParent = overParent
    THEN [i \in 1..Len(items) |->
            IF items[i].type = "GROUP" /\ items[i].id = activeParent
            THEN [items[i] EXCEPT !.items =
                     arrayMove(@, FindIndex(@, activeId), FindIndex(@, over.id))]
            ELSE items[i]]
    ELSE IF activeParent # NULL /\ overParent = NULL
    THEN LET itemsWithoutGroup == P2WithoutItem(items, activeParent, activeId)
             targetIndex == FindIndex(itemsWithoutGroup, over.id)
         IN  SubSeq(itemsWithoutGroup, 1, targetIndex + 1)
             \o <<draggedItem>>
             \o SubSeq(itemsWithoutGroup, targetIndex + 2, Len(itemsWithoutGroup))
    ELSE IF activeParent = NULL /\ overParent # NULL
    THEN V2InsertAfterInGroup(V2WithoutRoot(items, activeId), overParent, over.id, draggedItem)
    ELSE \* from one group to another: one map, the source branch returns first
         [i \in 1..Len(items) |->
            IF items[i].type = "GROUP" /\ items[i].id = activeParent
            THEN [items[i] EXCEPT !.items = FilterOutId(@, activeId)]
            ELSE IF items[i].type = "GROUP" /\ items[i].id = overParent
            THEN [items[i] EXCEPT !.items =
                     SpliceInsert(@, FindIndex(@, over.id) + 1, draggedItem)]
            ELSE items[i]]

\* "Handle dropping an item directly over a group"; activeParentId is the
\* state set by handleDragStart
V2ItemOnGroup(items, activeParentId, activeId, over) ==
    LET groups == P2groups(items)
        draggedItem == V2DraggedItem(activeId)
        AppendTo(arr, gid) ==
            [i \in 1..Len(arr) |->
                IF arr[i].type = "GROUP" /\ arr[i].id = gid
                THEN [arr[i] EXCEPT !.items = Append(@, draggedItem)]
                ELSE arr[i]]
    IN
    IF FindIndex(groups, over.id) = -1 THEN items
    ELSE IF activeParentId = NULL
    THEN AppendTo(V2WithoutRoot(items, activeId), over.id)
    ELSE IF FindIndex(groups, activeParentId) = -1 THEN items
    ELSE IF FindIndex(groups[FindIndex(groups, activeParentId) + 1].items, activeId) = -1
    THEN items
    ELSE \* one map: the source branch returns before the target branch is tried
         [i \in 1..Len(items) |->
            IF items[i].type = "GROUP" /\ items[i].id = activeParentId
            THEN [items[i] EXCEPT !.items = FilterOutId(@, activeId)]
            ELSE IF items[i].type = "GROUP" /\ items[i].id = over.id
            THEN [items[i] EXCEPT !.items = Append(@, draggedItem)]
            ELSE items[i]]

\* handleDragEnd: the rootItems committed by the drop
V2DragEnd(items, activeParentId, activeId, over) ==
    LET activeType == P2findItemType(items, activeId) IN
    IF over = NoOver \/ activeType = UNDEFINED THEN items
    ELSE IF over.id = "end-of-list" THEN V2DropAtEnd(items, activeId)
    ELSE IF over.type = "AFTER_GROUP" THEN V2DropAfterGroup(items, activeId, over.groupId)
    ELSE IF activeType = "GROUP" THEN V2GroupSort(items, activeId, over)
    ELSE IF activeType = "ITEM" /\ over.type = "ITEM" THEN V2ItemOnItem(items, activeId, over)
    ELSE IF activeType = "ITEM" /\ over.type = "GROUP"
    THEN V2ItemOnGroup(items, activeParentId, activeId, over)
    ELSE items

\* handleRemoveGroup: the updater passed to setRootItems
V2RemoveGroup(items, groupId) ==
    IF FindGROUPIndex(items, groupId) = -1 THEN items
    ELSE V2WithoutRoot(items, groupId) \o items[FindGROUPIndex(items, groupId) + 1].items

V2handleDragStart(id) ==
    /\ demo = "v2"
    /\ dnd_active = NULL
    /\ gestures < MaxGestures
    /\ dnd_active' = id
    /\ dnd_over' = NoOver
    /\ snapshot' = v2_rootItems
    /\ v2_activeParentId' = P2findGroupContainingItem(v2_rootItems, id)
    /\ UNCHANGED <<gestures, v2_rootItems, v2_overGroup, v2_overAfterArea, v2_dropPreview>>
    /\ FrameV2

V2handleDragOver(over, before) ==
    /\ demo = "v2"
    /\ dnd_active # NULL
    /\ dnd_over' = over
    /\ LET r == V2DragOver(v2_rootItems,
                           [overGroup |-> v2_overGroup, overAfterArea |-> v2_overAfterArea,
                            dropPreview |-> v2_dropPreview],
                           dnd_active, over, before)
       IN  /\ v2_overGroup' = r.overGroup
           /\ v2_overAfterArea' = r.overAfterArea
           /\ v2_dropPreview' = r.dropPreview
    /\ UNCHANGED <<gestures, dnd_active, snapshot, v2_rootItems, v2_activeParentId>>
    /\ FrameV2

\* the drop lands on the over last delivered to handleDragOver
V2handleDragEnd ==
    /\ demo = "v2"
    /\ dnd_active # NULL
    /\ v2_rootItems' = V2DragEnd(v2_rootItems, v2_activeParentId, dnd_active, dnd_over)
    /\ v2_activeParentId' = NULL
    /\ v2_overGroup' = NULL
    /\ v2_overAfterArea' = NULL
    /\ v2_dropPreview' = V2NoPreview
    /\ dnd_active' = NULL
    /\ dnd_over' = NoOver
    /\ snapshot' = NoSnapshot
    /\ gestures' = gestures + 1
    /\ FrameV2

\* the Remove button of a rendered group
V2handleRemoveGroup(groupId) ==
    /\ demo = "v2"
    /\ dnd_active = NULL
    /\ v2_rootItems' = V2RemoveGroup(v2_rootItems, groupId)
    /\ UNCHANGED <<dndvars, v2_activeParentId, v2_overGroup, v2_overAfterArea, v2_dropPreview>>
    /\ FrameV2

\* before is only read when both nodes are groups or both are items
V2SidesRead(rootItems, activeId, over) ==
    IF over # NoOver /\ over.type \in {"ITEM", "GROUP"}
       /\ P2findItemType(rootItems, activeId) = over.type
    THEN BOOLEAN ELSE {FALSE}

NextV2 ==
    \/ \E id \in P2Ids(v2_rootItems) : V2handleDragStart(id)
    \/ \E over \in V2Overs(v2_rootItems) \cup {NoOver} :
          \E before \in V2SidesRead(v2_rootItems, dnd_active, over) :
              V2handleDragOver(over, before)
    \/ V2handleDragEnd
    \/ \E i \in 1..Len(P2groups(v2_rootItems)) :
          V2handleRemoveGroup(P2groups(v2_rootItems)[i].id)

(***************************************************************************)
(* unnamed/part_001: topLevel (items and group references interleaved) and *)
(* groupItems (a record keyed by group id); draggable ids are strings      *)
(* "top-item-<id>", "group-<groupId>", "group-item-<groupId>-<itemId>"     *)
(***************************************************************************)
\* groups createNewGroup may add in one run
P1MaxNewGroups == 1

P1TopItem(id, content) == [type |-> "item", id |-> id, content |-> content]
P1TopGroup(id)         == [type |-> "group", id |-> id, content |-> NULL]
P1GroupItem(id, content) == [id |-> id, content |-> content]

P1initialTopLevel ==
    << P1TopItem("1", "Item 1"), P1TopGroup("g1"), P1TopItem("2", "Item 2"),
       P1TopGroup("g2"), P1TopItem("3", "Item 3") >>

P1initialGroupItems ==
    [g \in {"g1", "g2"} |->
        IF g = "g1"
        THEN <<P1GroupItem("1", "Group 1 - Item A"), P1GroupItem("2", "Group 1 - Item B")>>
        ELSE <<P1GroupItem("1", "Group 2 - Item A")>>]

\* no node is being dragged
P1NoData == [container |-> NULL, content |-> NULL]
\* event.over is null
P1NoNode == [id |-> NULL, container |-> NULL, content |-> NULL]

\* the template strings of the useSortable ids
P1TopItemId(itemId)            == "top-item-" \o itemId
P1GroupHeaderId(groupId)       == "group-" \o groupId
P1GroupItemId(groupId, itemId) == "group-item-" \o groupId \o "-" \o itemId
\* the DOM id of EmptyGroupPlaceholder (a plain div: it calls neither
\* useSortable nor useDroppable, so it is not among the nodes of P1Nodes)
P1PlaceholderId(groupId)       == "group-placeholder-" \o groupId

\* the item ids and group ids the demo can hold: 'g' + (number of keys + 1)
P1ItemIdUniverse  == {"1", "2", "3"}
P1GroupIdUniverse == {"g" \o ToString(n) : n \in 1..(3 + P1MaxNewGroups)}

\* parseDraggableId: the prefixes are tried in the order top-item-, group-item-,
\* group-; the group id of a group item ends at the first dash
parseDraggableId(id) ==
    IF \E x \in P1ItemIdUniverse : id = P1TopItemId(x)
    THEN [type |-> "top-item", groupId |-> NULL,
          itemId |-> CHOOSE x \in P1ItemIdUniverse : id = P1TopItemId(x)]
    ELSE IF \E g \in P1GroupIdUniverse, x \in P1ItemIdUniverse : id = P1GroupItemId(g, x)
    THEN LET gx == CHOOSE gx \in P1GroupIdUniverse \X P1ItemIdUniverse :
                       id = P1GroupItemId(gx[1], gx[2])
         IN  [type |-> "group-item", groupId |-> gx[1], itemId |-> gx[2]]
    ELSE IF \E g \in P1GroupIdUniverse : id = P1GroupHeaderId(g)
    THEN [type |-> "group", itemId |-> NULL,
          groupId |-> CHOOSE g \in P1GroupIdUniverse : id = P1GroupHeaderId(g)]
    ELSE [type |-> "unknown", groupId |-> NULL, itemId |-> NULL]

\* groupItems[groupId] || []
P1ItemsOf(groupItems, groupId) ==
    IF groupId \in DOMAIN groupItems THEN groupItems[groupId] ELSE <<>>

\* topLevelIds
P1topLevelIds(topLevel) ==
    [i \in 1..Len(topLevel) |->
        IF topLevel[i].type = "item" THEN P1TopItemId(topLevel[i].id)
        ELSE P1GroupHeaderId(topLevel[i].id)]

\* (groupItems[groupId] || []).map((item) => `group-item-${groupId}-${item.id}`)
P1groupItemIds(groupItems, groupId) ==
    LET items == P1ItemsOf(groupItems, groupId)
    IN  [i \in 1..Len(items) |-> P1GroupItemId(groupId, items[i].id)]

\* the rendered sortable nodes with their data: SortableTopItem, SortableGroup
\* header and SortableGroupItem (the empty-group placeholder is a plain div)
P1Nodes(topLevel, groupItems) ==
    {[id |-> P1topLevelIds(topLevel)[i], container |-> "top",
      content |-> IF topLevel[i].type = "item" THEN topLevel[i].content
                  ELSE "Group " \o topLevel[i].id] : i \in 1..Len(topLevel)}
    \cup UNION {
        {[id |-> P1GroupItemId(topLevel[i].id, P1ItemsOf(groupItems, topLevel[i].id)[k].id),
          container |-> topLevel[i].id,
          content |-> P1ItemsOf(groupItems, topLevel[i].id)[k].content] :
             k \in 1..Len(P1ItemsOf(groupItems, topLevel[i].id))} :
        i \in {j \in 1..Len(topLevel) : topLevel[j].type = "group"}}

\* prev with the array of groupId replaced ({...prev, [groupId]: arr})
P1WithGroup(prev, groupId, arr) ==
    [g \in DOMAIN prev \cup {groupId} |-> IF g = groupId THEN arr ELSE prev[g]]

\* "If dropped in the same container, reorder within that container."
P1Reorder(topLevel, groupItems, active, over) ==
    IF active.container = "top" THEN
        LET oldIndex == IndexOf(P1topLevelIds(topLevel), active.id)
            newIndex == IndexOf(P1topLevelIds(topLevel), over.id)
        IN  [topLevel |-> IF oldIndex # newIndex
                          THEN arrayMove(topLevel, oldIndex, newIndex) ELSE topLevel,
             groupItems |-> groupItems]
    ELSE
        LET groupId == active.container
            oldIndex == IndexOf(P1groupItemIds(groupItems, groupId), active.id)
            newIndex == IndexOf(P1groupItemIds(groupItems, groupId), over.id)
        IN  [topLevel |-> topLevel,
             groupItems |-> IF oldIndex # newIndex
                            THEN P1WithGroup(groupItems, groupId,
                                     arrayMove(groupItems[groupId], oldIndex, newIndex))
                            ELSE groupItems]

\* "Remove from source container."
P1RemoveFromSource(st, active, itemId) ==
    IF active.container = "top"
    THEN LET Keep(entry) == ~(entry.type = "item" /\ entry.id = itemId)
         IN  [st EXCEPT !.topLevel = SelectSeq(@, Keep)]
    ELSE LET Keep(item) == item.id # itemId
         IN  [st EXCEPT !.groupItems =
                 P1WithGroup(@, active.container, SelectSeq(@[active.container], Keep))]

\* "Insert into destination container."; topLevel and groupItems are the
\* values of the render the handler closed over, st the queued state
P1InsertIntoDestination(st, topLevel, groupItems, movingItem, over) ==
    IF over.container = "top"
    THEN LET destIndex == IndexOf(P1topLevelIds(topLevel), over.id)
         IN  [st EXCEPT !.topLevel =
                 SpliceInsert(@, destIndex, P1TopItem(movingItem.id, movingItem.content))]
    ELSE LET destGroup == over.container
             found == IndexOf(P1groupItemIds(groupItems, destGroup), over.id)
             destIndex == IF over.id = P1PlaceholderId(destGroup) THEN 0
                          ELSE IF found = -1 THEN Len(P1ItemsOf(groupItems, destGroup))
                          ELSE found
         IN  [st EXCEPT !.groupItems =
                 P1WithGroup(@, destGroup,
                     SpliceInsert(P1ItemsOf(@, destGroup), destIndex, movingItem))]

\* handleDragEnd: [topLevel, groupItems] after the queued updaters ran
P1DragEnd(topLevel, groupItems, active, over) ==
    LET st == [topLevel |-> topLevel, groupItems |-> groupItems]
        parsed == parseDraggableId(active.id)
    IN
    IF over = P1NoNode THEN st
    ELSE IF active.container = over.container
    THEN P1Reorder(topLevel, groupItems, active, over)
    ELSE IF parsed.type = "unknown" \/ parsed.type = "group" THEN st
    ELSE P1InsertIntoDestination(
             P1RemoveFromSource(st, active, parsed.itemId),
             topLevel, groupItems,
             P1GroupItem(parsed.itemId, active.content), over)

P1handleDragStart(node) ==
    /\ demo = "p1"
    /\ dnd_active = NULL
    /\ gestures < MaxGestures
    /\ dnd_active' = node.id
    /\ p1_activeId' = node.id
    /\ p1_activeData' = [container |-> node.container, content |-> node.content]
    /\ snapshot' = <<p1_topLevel, p1_groupItems>>
    /\ UNCHANGED <<gestures, dnd_over, p1_topLevel, p1_groupItems, p1_created>>
    /\ FrameP1

P1handleDragEnd(over) ==
    /\ demo = "p1"
    /\ dnd_active # NULL
    /\ LET r == P1DragEnd(p1_topLevel, p1_groupItems,
                          [id |-> dnd_active, container |-> p1_activeData.container,
                           content |-> p1_activeData.content], over)
       IN  /\ p1_topLevel' = r.topLevel
           /\ p1_groupItems' = r.groupItems
    /\ p1_activeId' = NULL
    /\ p1_activeData' = P1NoData
    /\ dnd_active' = NULL
    /\ snapshot' = NoSnapshot
    /\ gestures' = gestures + 1
    /\ UNCHANGED <<dnd_over, p1_created>>
    /\ FrameP1

\* 'g' + (Object.keys(groupItems).length + 1)
P1newGroupId(groupItems) == "g" \o ToString(Cardinality(DOMAIN groupItems) + 1)

createNewGroup ==
    /\ demo = "p1"
    /\ dnd_active = NULL
    /\ p1_created < P1MaxNewGroups
    /\ p1_created' = p1_created + 1
    /\ p1_topLevel' = Append(p1_topLevel, P1TopGroup(P1newGroupId(p1_groupItems)))
    /\ p1_groupItems' = P1WithGroup(p1_groupItems, P1newGroupId(p1_groupItems), <<>>)
    /\ UNCHANGED <<dndvars, p1_activeId, p1_activeData>>
    /\ FrameP1

removeGroup(groupId) ==
    /\ demo = "p1"
    /\ dnd_active = NULL
    /\ LET Keep(entry) == ~(entry.type = "group" /\ entry.id = groupId)
       IN  p1_topLevel' = SelectSeq(p1_topLevel, Keep)
    /\ p1_groupItems' = [g \in DOMAIN p1_groupItems \ {groupId} |-> p1_groupItems[g]]
    /\ UNCHANGED <<dndvars, p1_activeId, p1_activeData, p1_created>>
    /\ FrameP1

NextP1 ==
    \/ \E node \in P1Nodes(p1_topLevel, p1_groupItems) : P1handleDragStart(node)
    \/ \E over \in P1Nodes(p1_topLevel, p1_groupItems) \cup {P1NoNode} : P1handleDragEnd(over)
    \/ createNewGroup
    \/ \E i \in {j \in 1..Len(p1_topLevel) : p1_topLevel[j].type = "group"} :
          removeGroup(p1_topLevel[i].id)

(***************************************************************************)
(* v4.tsx, second demo ("Two Column Drag & Drop"): a left column of items  *)
(* with its own droppable LEFT_COLUMN_ID, a right column of items and      *)
(* groups, and a drop zone above and below every group of the right column *)
(***************************************************************************)
LEFT_COLUMN_ID == "left-column-drop-area"

V4bItemIds  == {"item-1", "item-2", "item-3", "item-4", "item-5", "item-6",
                "item-7", "item-8"}
V4bGroupIds == {"group-1", "group-2", "group-3"}

V4binitialLeft == <<"item-7", "item-8">>

V4binitialGroups ==
    << V10Group("group-1", <<"item-5">>), V10Group("group-2", <<"item-6">>),
       V10Group("group-3", <<>>) >>

V4binitialRight ==
    <<"item-1", "group-1", "item-2", "item-3", "group-2", "item-4", "group-3">>

\* a gesture of this demo has 11 draggables and 18 droppables: the two-column
\* demos get a bound on the number of gestures of their own
TwoColMaxGestures == 1

\* useMemo dropZones: only for the groups that are in the right column root
V4bdropZones(right, groups) ==
    {z \in V10dropZones(groups) : Includes(right, z.groupId)}

V4bfindZone(right, groups, overId) ==
    CHOOSE z \in V4bdropZones(right, groups) : z.id = overId

V4bgetItemType(right, groups, id) ==
    IF id = NULL THEN NULL
    ELSE IF id = LEFT_COLUMN_ID THEN "container"
    ELSE IF id \in V4bItemIds THEN "item"
    ELSE IF \E i \in 1..Len(groups) : groups[i].id = id THEN "group"
    ELSE IF \E z \in V4bdropZones(right, groups) : z.id = id THEN "dropZone"
    ELSE NULL

V4bNoLocation == [containerId |-> NULL, groupId |-> NULL, index |-> -1]

\* findItemLocation: left first, then the right root, then the first group
V4bfindItemLocation(itemId, leftItems, rightItems, groups) ==
    IF IndexOf(leftItems, itemId) # -1
    THEN [containerId |-> "left", groupId |-> NULL, index |-> IndexOf(leftItems, itemId)]
    ELSE IF IndexOf(rightItems, itemId) # -1
    THEN [containerId |-> "right-root", groupId |-> NULL,
          index |-> IndexOf(rightItems, itemId)]
    ELSE IF V10InAGroup(groups, itemId)
    THEN LET g == CHOOSE i \in 1..Len(groups) :
                      /\ Includes(groups[i].items, itemId)
                      /\ \A j \in 1..(i - 1) : ~Includes(groups[j].items, itemId)
         IN  [containerId |-> "right-group", groupId |-> groups[g].id,
              index |-> IndexOf(groups[g].items, itemId)]
    ELSE V4bNoLocation

V4bNoPreview == [targetId |-> NULL, targetType |-> NULL, insertPosition |-> NULL,
                 addToGroup |-> FALSE, isOverContainer |-> FALSE]

V4bPreview(targetId, targetType, insertPosition, addToGroup, isOverContainer) ==
    [targetId |-> targetId, targetType |-> targetType, insertPosition |-> insertPosition,
     addToGroup |-> addToGroup, isOverContainer |-> isOverContainer]

\* the draggables: items and groups
V4bIds(left, right, groups) ==
    Range(left) \cup Range(right) \cup UNION {Range(groups[i].items) : i \in 1..Len(groups)}

\* the droppables: the draggables, the drop zones and the left column
V4bOvers(left, right, groups) ==
    {[id |-> x, type |-> NULL, groupId |-> NULL] :
        x \in V4bIds(left, right, groups) \cup {LEFT_COLUMN_ID}
              \cup {z.id : z \in V4bdropZones(right, groups)}}

\* handleDragOver: [z |-> overDropZone, p |-> previewPosition, l |-> isOverLeftColumn]
V4bDragOver(left, right, groups, activeType, activeId, over) ==
    LET none == [z |-> NULL, p |-> V4bNoPreview, l |-> FALSE] IN
    IF over = NoOver \/ activeId = over.id THEN none
    ELSE
    LET overId   == over.id
        overType == V4bgetItemType(right, groups, overId)
        order(a, b) == IF a < b THEN "after" ELSE "before"
    IN
    IF activeType = "item" THEN
        IF overId = LEFT_COLUMN_ID
        THEN [z |-> NULL, l |-> TRUE,
              p |-> V4bPreview(LEFT_COLUMN_ID, "container", NULL, FALSE, TRUE)]
        ELSE IF overType = "item" /\ Includes(left, overId) /\ Includes(left, activeId)
        THEN [z |-> NULL, l |-> TRUE,
              p |-> V4bPreview(overId, "item",
                               order(IndexOf(left, activeId), IndexOf(left, overId)),
                               FALSE, FALSE)]
        ELSE IF overType = "item" /\ Includes(left, overId)
        THEN [z |-> NULL, l |-> TRUE,
              p |-> V4bPreview(overId, "item", "before", FALSE, FALSE)]
        ELSE IF overType = "dropZone"
        THEN LET dz == V4bfindZone(right, groups, overId) IN
             [z |-> overId, l |-> FALSE,
              p |-> V4bPreview(dz.groupId, "group",
                               IF dz.position = "top" THEN "before" ELSE "after",
                               FALSE, FALSE)]
        ELSE IF overType = "group"
        THEN [z |-> NULL, l |-> FALSE, p |-> V4bPreview(overId, "group", NULL, TRUE, FALSE)]
        ELSE IF overType = "item"
        THEN LET overLocation   == V4bfindItemLocation(overId, left, right, groups)
                 activeLocation == V4bfindItemLocation(activeId, left, right, groups)
             IN  IF overLocation = V4bNoLocation THEN none
                 ELSE IF \/ /\ overLocation.containerId = "right-root"
                            /\ activeLocation.containerId = "right-root"
                         \/ /\ overLocation.containerId = "right-group"
                            /\ activeLocation.containerId = "right-group"
                            /\ overLocation.groupId = activeLocation.groupId
                 THEN [z |-> NULL, l |-> FALSE,
                       p |-> V4bPreview(overId, "item",
                                        order(activeLocation.index, overLocation.index),
                                        FALSE, FALSE)]
                 ELSE IF overLocation.containerId \in {"right-root", "right-group"}
                 THEN [z |-> NULL, l |-> FALSE,
                       p |-> V4bPreview(overId, "item", "before", FALSE, FALSE)]
                 ELSE none
        ELSE none
    ELSE IF activeType = "group" THEN
        IF overType = "dropZone" /\ V4bfindZone(right, groups, overId).groupId # activeId
        THEN LET dz == V4bfindZone(right, groups, overId) IN
             [z |-> overId, l |-> FALSE,
              p |-> V4bPreview(dz.groupId, "group",
                               IF dz.position = "top" THEN "before" ELSE "after",
                               FALSE, FALSE)]
        ELSE IF overType \in {"item", "group"} /\ Includes(right, overId)
                /\ Includes(right, activeId)
        THEN [z |-> NULL, l |-> FALSE,
              p |-> V4bPreview(overId, overType,
                               order(IndexOf(right, activeId), IndexOf(right, overId)),
                               FALSE, FALSE)]
        ELSE none
    ELSE none

\* faulty variant of "Remove from source": the dragged item stays where it was
V4bRemoveFromSourceKeep(left, right, groups, activeId, sourceLocation) ==
    [left |-> left, right |-> right, groups |-> groups]

\* handleDragEnd, "Remove from source": the lists without the dragged item
V4bRemoveFromSource(left, right, groups, activeId, sourceLocation) ==
    IF sourceLocation.containerId = "left"
    THEN [left |-> FilterOut(left, activeId), right |-> right, groups |-> groups]
    ELSE IF sourceLocation.containerId = "right-root"
    THEN [left |-> left, right |-> FilterOut(right, activeId), groups |-> groups]
    ELSE IF sourceLocation.containerId = "right-group"
    THEN [left |-> left, right |-> right,
          groups |-> [i \in 1..Len(groups) |->
                        IF groups[i].id = sourceLocation.groupId
                        THEN [groups[i] EXCEPT !.items = FilterOut(@, activeId)]
                        ELSE groups[i]]]
    ELSE [left |-> left, right |-> right, groups |-> groups]

\* handleDragEnd, "TARGET: Left Column"
V4bItemToLeft(left, right, groups, previewPosition, activeId, overId, overType) ==
    LET sourceLocation == V4bfindItemLocation(activeId, left, right, groups)
        targetIndex    == IF overType = "item" /\ Includes(left, overId)
                          THEN IndexOf(left, overId)
                               + (IF previewPosition.insertPosition = "after" THEN 1 ELSE 0)
                          ELSE Len(left)
        new            == V4bRemoveFromSource(left, right, groups, activeId, sourceLocation)
        finalIndex     == Max(0, Min(targetIndex, Len(new.left)))
    IN  IF ~Includes(new.left, activeId)
        THEN [new EXCEPT !.left = SpliceInsert(new.left, finalIndex, activeId)]
        ELSE new

\* handleDragEnd, "2c. Dropped onto an Item (reorder within root or group)"
V4bItemOnItem(new, previewPosition, activeId, overId) ==
    LET targetLocation == V4bfindItemLocation(overId, new.left, new.right, new.groups)
        adjust == IF /\ previewPosition # V4bNoPreview
                     /\ previewPosition.targetId = overId
                     /\ previewPosition.insertPosition = "after"
                  THEN 1 ELSE 0
    IN  IF targetLocation.containerId = "right-root"
        THEN LET targetIndex == Max(0, Min(IndexOf(new.right, overId) + adjust,
                                           Len(new.right)))
             IN  [new EXCEPT !.right = SpliceInsert(new.right, targetIndex, activeId)]
        ELSE IF targetLocation.containerId = "right-group"
        THEN [new EXCEPT !.groups =
                 [i \in 1..Len(new.groups) |->
                     IF new.groups[i].id = targetLocation.groupId
                     THEN LET its == new.groups[i].items
                              targetIndex == Max(0, Min(IndexOf(its, overId) + adjust,
                                                        Len(its)))
                          IN  [new.groups[i] EXCEPT
                                  !.items = SpliceInsert(its, targetIndex, activeId)]
                     ELSE new.groups[i]]]
        ELSE [new EXCEPT !.right = Append(new.right, activeId)]

\* handleDragEnd, "TARGET: Right Column"
V4bItemToRight(left, right, groups, previewPosition, activeId, overId, overType) ==
    LET sourceLocation == V4bfindItemLocation(activeId, left, right, groups)
        new == V4bRemoveFromSource(left, right, groups, activeId, sourceLocation)
    IN  IF overType = "dropZone" THEN
            LET dz == V4bfindZone(right, groups, overId)
                targetGroupIndex == IndexOf(new.right, dz.groupId)
            IN  IF targetGroupIndex # -1
                THEN [new EXCEPT !.right =
                         SpliceInsert(new.right,
                                      IF dz.position = "top" THEN targetGroupIndex
                                      ELSE targetGroupIndex + 1, activeId)]
                ELSE [new EXCEPT !.right = Append(new.right, activeId)]
        ELSE IF overType = "group" THEN
            [new EXCEPT !.groups =
                [i \in 1..Len(new.groups) |->
                    IF new.groups[i].id = overId /\ ~Includes(new.groups[i].items, activeId)
                    THEN [new.groups[i] EXCEPT !.items = Append(@, activeId)]
                    ELSE new.groups[i]]]
        ELSE IF overType = "item" THEN V4bItemOnItem(new, previewPosition, activeId, overId)
        ELSE IF ~Includes(left, overId) /\ overId # LEFT_COLUMN_ID
        THEN [new EXCEPT !.right = Append(new.right, activeId)]
        ELSE new

\* handleDragEnd, "GROUP Drag End Logic": only the right column list is written
V4bGroupDrop(right, groups, activeId, overId, overType) ==
    LET activeIndex == IndexOf(right, activeId) IN
    IF overType = "dropZone" THEN
        LET dz == V4bfindZone(right, groups, overId)
            targetGroupIndex == IndexOf(right, dz.groupId)
            without == FilterOut(right, activeId)
            finalTargetIndex == IndexOf(without, dz.groupId)
        IN  IF activeIndex # -1 /\ targetGroupIndex # -1
            THEN IF finalTargetIndex = -1
                 THEN IF dz.position = "top"
                      THEN SpliceInsert(without, Len(without) - 1, activeId)
                      ELSE SpliceInsert(without, 0, activeId)
                 ELSE SpliceInsert(without,
                                   IF dz.position = "top" THEN finalTargetIndex
                                   ELSE finalTargetIndex + 1, activeId)
            ELSE right
    ELSE IF overType \in {"item", "group"} /\ Includes(right, overId)
    THEN arrayMove(right, activeIndex, IndexOf(right, overId))
    ELSE right

\* a handleDragEnd whose "TARGET: Left Column" branch does not ask for an item
V4bDragEndAnyToLeft(left, right, groups, previewPosition, isOverLeftColumn, activeId, over) ==
    LET same == [left |-> left, right |-> right, groups |-> groups] IN
    IF over = NoOver \/ activeId = over.id THEN same
    ELSE IF over.id = LEFT_COLUMN_ID \/ Includes(left, over.id)
    THEN V4bItemToLeft(left, right, groups, previewPosition, activeId, over.id,
                       V4bgetItemType(right, groups, over.id))
    ELSE same

\* handleDragEnd: [left, right, groups] committed by the drop
V4bDragEnd(left, right, groups, previewPosition, isOverLeftColumn, activeId, over) ==
    LET same == [left |-> left, right |-> right, groups |-> groups] IN
    IF over = NoOver THEN same
    ELSE
    LET overId     == over.id
        activeType == V4bgetItemType(right, groups, activeId)
        overType   == V4bgetItemType(right, groups, overId)
    IN
    IF activeId = overId /\ overType # "group" THEN same
    ELSE IF activeType = "item" THEN
        IF \/ overId = LEFT_COLUMN_ID
           \/ overType = "item" /\ Includes(left, overId)
           \/ isOverLeftColumn
        THEN V4bItemToLeft(left, right, groups, previewPosition, activeId, overId, overType)
        ELSE V4bItemToRight(left, right, groups, previewPosition, activeId, overId, overType)
    ELSE IF activeType = "group" /\ Includes(right, activeId)
    THEN [same EXCEPT !.right = V4bGroupDrop(right, groups, activeId, overId, overType)]
    ELSE same

V4bhandleDragStart(id) ==
    /\ demo = "v4b"
    /\ dnd_active = NULL
    /\ gestures < TwoColMaxGestures
    /\ dnd_active' = id
    /\ dnd_over' = NoOver
    /\ v4b_activeId' = id
    /\ v4b_activeItem' = [id |-> id, type |-> IF id \in V4bItemIds THEN "item" ELSE "group"]
    /\ v4b_overDropZone' = NULL
    /\ v4b_previewPosition' = V4bNoPreview
    /\ v4b_isOverLeftColumn' = FALSE
    /\ UNCHANGED <<gestures, snapshot, v4b_groups, v4b_leftColumnItems,
                   v4b_rightColumnItems>>
    /\ FrameV4b

V4bhandleDragOver(over) ==
    /\ demo = "v4b"
    /\ dnd_active # NULL
    /\ dnd_over' = over
    /\ LET r == V4bDragOver(v4b_leftColumnItems, v4b_rightColumnItems, v4b_groups,
                            v4b_activeItem.type, dnd_active, over)
       IN  /\ v4b_overDropZone' = r.z
           /\ v4b_previewPosition' = r.p
           /\ v4b_isOverLeftColumn' = r.l
    /\ UNCHANGED <<gestures, dnd_active, snapshot, v4b_groups, v4b_leftColumnItems,
                   v4b_rightColumnItems, v4b_activeId, v4b_activeItem>>
    /\ FrameV4b

\* the drop lands on the over last delivered to handleDragOver
V4bhandleDragEnd ==
    /\ demo = "v4b"
    /\ dnd_active # NULL
    /\ LET r == V4bDragEnd(v4b_leftColumnItems, v4b_rightColumnItems, v4b_groups,
                           v4b_previewPosition, v4b_isOverLeftColumn, dnd_active, dnd_over)
       IN  /\ v4b_leftColumnItems' = r.left
           /\ v4b_rightColumnItems' = r.right
           /\ v4b_groups' = r.groups
    /\ v4b_activeId' = NULL
    /\ v4b_activeItem' = V10NoItem
    /\ v4b_overDropZone' = NULL
    /\ v4b_previewPosition' = V4bNoPreview
    /\ v4b_isOverLeftColumn' = FALSE
    /\ dnd_active' = NULL
    /\ dnd_over' = NoOver
    /\ gestures' = gestures + 1
    /\ UNCHANGED snapshot
    /\ FrameV4b

NextV4b ==
    \/ \E id \in V4bIds(v4b_leftColumnItems, v4b_rightColumnItems, v4b_groups) :
          V4bhandleDragStart(id)
    \/ \E over \in V4bOvers(v4b_leftColumnItems, v4b_rightColumnItems, v4b_groups)
                   \cup {NoOver} : V4bhandleDragOver(over)
    \/ V4bhandleDragEnd

(***************************************************************************)
(* v0.tsx: one list of items and groups; the items of a group are sortable *)
(* nodes of the same DndContext, and handleDragEnd reorders the top-level  *)
(* list only                                                               *)
(***************************************************************************)
\* an Item, and a Group ('items' in entry) with the ids of its items
V0Item(id)         == [id |-> id, isGroup |-> FALSE, items |-> <<>>]
V0Group(id, items) == [id |-> id, isGroup |-> TRUE, items |-> items]

V0initialItems ==
    << V0Item("item-1"), V0Item("item-2"), V0Item("item-3"),
       V0Group("group-1", <<"group-1-item-1", "group-1-item-2">>) >>

\* groups handleAddGroup may still add
V0MaxNewGroups == 1

\* `group-${Date.now()}`
V0NewGroupId(n) == IF n = 0 THEN "group-new-1" ELSE "group-new-2"

\* the useSortable nodes: the entries of the list and the items of its groups
V0Ids(items) ==
    {items[i].id : i \in 1..Len(items)}
    \cup UNION {Range(items[i].items) : i \in 1..Len(items)}

V0Overs(items) == {[id |-> x, type |-> NULL, groupId |-> NULL] : x \in V0Ids(items)}

\* arrayMove of @dnd-kit/sortable:
\* newArray.splice(to < 0 ? newArray.length + to : to, 0, newArray.splice(from, 1)[0])
V0arrayMove(array, from, to) ==
    LET s     == SpliceStart(Len(array), from)
        moved == IF s < Len(array) THEN array[s + 1] ELSE V0Item(UNDEFINED)
        at    == IF to < 0 THEN Len(array) + to ELSE to
    IN  SpliceInsert(SpliceRemove(array, from), at, moved)

\* handleDragEnd: the list committed by the drop
V0DragEnd(items, activeId, over) ==
    IF over = NoOver THEN items
    ELSE IF activeId = over.id THEN items
    ELSE V0arrayMove(items, FindIndex(items, activeId), FindIndex(items, over.id))

V0handleDragStart(id) ==
    /\ demo = "v0"
    /\ dnd_active = NULL
    /\ gestures < MaxGestures
    /\ dnd_active' = id
    /\ dnd_over' = NoOver
    /\ v0_activeId' = id
    /\ UNCHANGED <<gestures, snapshot, v0_items, v0_created>>
    /\ FrameV0

V0handleDragEnd(over) ==
    /\ demo = "v0"
    /\ dnd_active # NULL
    /\ v0_activeId' = NULL
    /\ v0_items' = V0DragEnd(v0_items, dnd_active, over)
    /\ dnd_active' = NULL
    /\ dnd_over' = NoOver
    /\ gestures' = gestures + 1
    /\ UNCHANGED <<snapshot, v0_created>>
    /\ FrameV0

\* handleRemoveGroup: the group goes, its items are appended to the list
V0RemoveGroup(prevItems, groupId) ==
    LET group == prevItems[FindIndex(prevItems, groupId) + 1]
    IN  FilterOutId(prevItems, groupId)
        \o [i \in 1..Len(group.items) |-> V0Item(group.items[i])]

V0handleRemoveGroup(groupId) ==
    /\ demo = "v0"
    /\ dnd_active = NULL
    /\ v0_items' = V0RemoveGroup(v0_items, groupId)
    /\ UNCHANGED <<dndvars, v0_activeId, v0_created>>
    /\ FrameV0

V0handleAddGroup ==
    /\ demo = "v0"
    /\ dnd_active = NULL
    /\ v0_created < V0MaxNewGroups
    /\ v0_items' = Append(v0_items, V0Group(V0NewGroupId(v0_created), <<>>))
    /\ v0_created' = v0_created + 1
    /\ UNCHANGED <<dndvars, v0_activeId>>
    /\ FrameV0

NextV0 ==
    \/ \E id \in V0Ids(v0_items) : V0handleDragStart(id)
    \/ \E over \in V0Overs(v0_items) \cup {NoOver} : V0handleDragEnd(over)
    \/ \E i \in 1..Len(v0_items) : v0_items[i].isGroup /\ V0handleRemoveGroup(v0_items[i].id)
    \/ V0handleAddGroup

(***************************************************************************)
(* react-ipc: the STREAM_RESPONSE handler of the main process, the         *)
(* streamResponse bridge of the preload script and the useStreamResponse   *)
(* hook.  A stream is one invocation of the handler; the k-th call of the   *)
(* hook registers the k-th listener and invokes the k-th handler.          *)
(***************************************************************************)
\* streamResponse calls explored per run
IpcMaxStreams == 2

\* messages sent and not yet received at any time
IpcMaxInFlight == 2

\* the submitted texts, as content.split(' ') returns them
IpcContents == {<<"a">>, <<"b", "c">>}

phrases ==
    <<"\n\nAnalyzing further...\n", "Processing your input...\n",
      "Generating response...\n">>

\* the contents of the chunks of one stream, in the order of the sends
IpcChunks(words) ==
    [i \in 1..Len(words) |-> words[i] \o " "]
    \o phrases \o <<"\n\nStream completed successfully!">>

\* the strings of a sequence put together
RECURSIVE Concat(_)
Concat(parts) == IF parts = <<>> THEN "" ELSE Head(parts) \o Concat(Tail(parts))

\* `${IPC_CHANNELS.STREAM_RESPONSE}-${Date.now()}`
IpcChannel(now) == "stream-response-" \o ToString(now)

\* a StreamChunk on its way; stream is the handler that sent it
IpcMsg(stream, channel, type, content, error) ==
    [stream |-> stream, channel |-> channel, type |-> type, content |-> content,
     error |-> error]

\* faulty variant of the callback: the content is put in front of the response
IpcCallbackPrepend(h, chunk) ==
    IF chunk.type = "chunk" /\ chunk.content # UNDEFINED /\ chunk.content # ""
    THEN [h EXCEPT !.response = chunk.content \o @]
    ELSE IF chunk.type = "done"
    THEN [h EXCEPT !.isDone = TRUE, !.loading = FALSE]
    ELSE IF chunk.error # UNDEFINED /\ chunk.error # ""
    THEN [h EXCEPT !.error = chunk.error, !.loading = FALSE]
    ELSE h

\* faulty variant of the callback: 'done' sets isDone and leaves loading as it is
IpcCallbackKeepsLoading(h, chunk) ==
    IF chunk.type = "chunk" /\ chunk.content # UNDEFINED /\ chunk.content # ""
    THEN [h EXCEPT !.response = @ \o chunk.content]
    ELSE IF chunk.type = "done"
    THEN [h EXCEPT !.isDone = TRUE]
    ELSE IF chunk.error # UNDEFINED /\ chunk.error # ""
    THEN [h EXCEPT !.error = chunk.error, !.loading = FALSE]
    ELSE h

\* the callback the hook passes to window.electron.streamResponse, applied to
\* the state [response, isDone, loading, error]
IpcCallback(h, chunk) ==
    IF chunk.type = "chunk" /\ chunk.content # UNDEFINED /\ chunk.content # ""
    THEN [h EXCEPT !.response = @ \o chunk.content]
    ELSE IF chunk.type = "done"
    THEN [h EXCEPT !.isDone = TRUE, !.loading = FALSE]
    ELSE IF chunk.error # UNDEFINED /\ chunk.error # ""
    THEN [h EXCEPT !.error = chunk.error, !.loading = FALSE]
    ELSE h

\* the callbacks of the listeners ls (in the order of registration), applied
\* one after the other
RECURSIVE IpcCallbacks(_, _, _)
IpcCallbacks(h, ls, chunk) ==
    IF ls = <<>> THEN h ELSE IpcCallbacks(IpcCallback(h, chunk), Tail(ls), chunk)

\* the listeners registered on a channel: ipcRenderer.on(channel, ...) of every
\* call so far; the cleanup function is returned to a caller that drops it
IpcListeners(streams, channel) ==
    LET On(k) == streams[k].channel = channel
    IN  SelectSeq([k \in 1..Len(streams) |-> k], On)

\* useStreamResponse.streamResponse and the streamResponse of the preload
\* script; dt is the time since the last reading of Date.now()
streamResponse(words, dt) ==
    /\ demo = "ipc"
    /\ Len(ipc_streams) < IpcMaxStreams
    /\ ipc_loading' = TRUE
    /\ ipc_error' = NULL
    /\ ipc_response' = ""
    /\ ipc_isDone' = FALSE
    /\ ipc_now' = ipc_now + dt
    /\ ipc_streams' = Append(ipc_streams,
                             [words |-> words, channel |-> IpcChannel(ipc_now + dt),
                              sent |-> 0, state |-> "running"])
    /\ UNCHANGED <<dndvars, ipc_wire, ipc_received>>
    /\ FrameIpc

\* app.tsx: the form is submitted through a button that is disabled while
\* loading; a stream takes more than a millisecond
handleStreamSubmit(words) ==
    /\ ~ipc_loading
    /\ streamResponse(words, 1)

\* the handler of stream k sends its next chunk, or 'done' after the last one
IpcSend(k) ==
    /\ demo = "ipc"
    /\ k \in 1..Len(ipc_streams)
    /\ ipc_streams[k].state = "running"
    /\ Len(ipc_wire) < IpcMaxInFlight
    /\ LET s      == ipc_streams[k]
           chunks == IpcChunks(s.words)
       IN  IF s.sent < Len(chunks)
           THEN /\ ipc_wire' = Append(ipc_wire, IpcMsg(k, s.channel, "chunk",
                                                       chunks[s.sent + 1], UNDEFINED))
                /\ ipc_streams' = [ipc_streams EXCEPT ![k].sent = @ + 1]
           ELSE /\ ipc_wire' = Append(ipc_wire, IpcMsg(k, s.channel, "done",
                                                       UNDEFINED, UNDEFINED))
                /\ ipc_streams' = [ipc_streams EXCEPT ![k].state = "done"]
    /\ UNCHANGED <<dndvars, ipc_loading, ipc_error, ipc_response, ipc_isDone, ipc_now,
                   ipc_received>>
    /\ FrameIpc

\* an exception in the try block of stream k: the catch block sends the error
IpcCatch(k) ==
    /\ demo = "ipc"
    /\ k \in 1..Len(ipc_streams)
    /\ ipc_streams[k].state = "running"
    /\ Len(ipc_wire) < IpcMaxInFlight
    /\ ipc_wire' = Append(ipc_wire, IpcMsg(k, ipc_streams[k].channel, "chunk",
                                           UNDEFINED, "Unknown error"))
    /\ ipc_streams' = [ipc_streams EXCEPT ![k].state = "failed"]
    /\ UNCHANGED <<dndvars, ipc_loading, ipc_error, ipc_response, ipc_isDone, ipc_now,
                   ipc_received>>
    /\ FrameIpc

\* the renderer receives the oldest message: every listener of its channel
\* calls its callback
IpcReceive ==
    /\ demo = "ipc"
    /\ ipc_wire # <<>>
    /\ LET chunk == Head(ipc_wire)
           ls    == IpcListeners(ipc_streams, chunk.channel)
           h     == IpcCallbacks([response |-> ipc_response, isDone |-> ipc_isDone,
                                  loading |-> ipc_loading, error |-> ipc_error],
                                 ls, chunk)
       IN  /\ ipc_response' = h.response
           /\ ipc_isDone' = h.isDone
           /\ ipc_loading' = h.loading
           /\ ipc_error' = h.error
           /\ ipc_received' = ipc_received
                                \o [i \in 1..Len(ls) |-> [listener |-> ls[i], chunk |-> chunk]]
    /\ ipc_wire' = Tail(ipc_wire)
    /\ UNCHANGED <<dndvars, ipc_now, ipc_streams>>
    /\ FrameIpc

\* the application: streams are started by the form
NextIpc ==
    \/ \E words \in IpcContents : handleStreamSubmit(words)
    \/ \E k \in 1..IpcMaxStreams : IpcSend(k)
    \/ \E k \in 1..IpcMaxStreams : IpcCatch(k)
    \/ IpcReceive

(***************************************************************************)
(* Initial state and specifications                                        *)
(***************************************************************************)
InitState ==
    /\ gestures = 0
    /\ dnd_active = NULL
    /\ dnd_over = NoOver
    /\ snapshot = NoSnapshot
    /\ ipc_loading = FALSE
    /\ ipc_error = NULL
    /\ ipc_response = ""
    /\ ipc_isDone = FALSE
    /\ ipc_now = 0
    /\ ipc_streams = <<>>
    /\ ipc_wire = <<>>
    /\ ipc_received = <<>>
    /\ v0_items = V0initialItems
    /\ v0_activeId = NULL
    /\ v0_created = 0
    /\ v4b_groups = V4binitialGroups
    /\ v4b_leftColumnItems = V4binitialLeft
    /\ v4b_rightColumnItems = V4binitialRight
    /\ v4b_activeId = NULL
    /\ v4b_activeItem = V10NoItem
    /\ v4b_overDropZone = NULL
    /\ v4b_previewPosition = V4bNoPreview
    /\ v4b_isOverLeftColumn = FALSE
    /\ p1_topLevel = P1initialTopLevel
    /\ p1_groupItems = P1initialGroupItems
    /\ p1_activeId = NULL
    /\ p1_activeData = P1NoData
    /\ p1_created = 0
    /\ v2_rootItems = V2initialRootItems
    /\ v2_activeParentId = NULL
    /\ v2_overGroup = NULL
    /\ v2_overAfterArea = NULL
    /\ v2_dropPreview = V2NoPreview
    /\ v10a_groups = V10initialGroups
    /\ v10a_leftColumnItems = V10initialLeft
    /\ v10a_rightColumnItems = V10initialRight
    /\ v10a_activeId = NULL
    /\ v10a_activeItem = V10NoItem
    /\ v10a_activeColumn = NULL
    /\ v10a_overDropZone = NULL
    /\ v10a_previewPosition = V10NoPreview
    /\ v3c_items = V3cinitialItems
    /\ v3c_activeId = NULL
    /\ v6_elements = V6initialElements
    /\ v6_activeElement = V6NoElement
    /\ v6_activeItemFromGroup = V6NoFromGroup
    /\ v6_dropTarget = V6NoTarget
    /\ v6_lastClientOffset = V6NoOffset
    /\ v6_created = 0
    /\ p2_rootItems = P2initialRootItems
    /\ p2_activeParentId = NULL
    /\ v1_items = V1initialItems
    /\ v1_groups = V1initialGroups
    /\ v1_activeParentId = NULL
    /\ v4a_items = V4ainitialItems
    /\ v4a_activeId = NULL
    /\ v4a_uuid = 0
    /\ v4a_inputNow = <<>>
    /\ v3a_items = V3ainitialItems
    /\ v3a_groups = V3ainitialGroups
    /\ v3a_mainList = V3ainitialMainList
    /\ v3a_activeId = NULL
    /\ v3a_activeType = NULL
    /\ v3a_dropIndicator = V3aNoIndicator
    /\ v3a_nextId = 0
    /\ v9_appState = V9initialData
    /\ v9_activeId = NULL
    /\ v3d_items = V3dinitialItems
    /\ v3d_activeId = NULL

InitV9 == demo = "v9" /\ InitState

SpecV9 == InitV9 /\ [][NextV9]_vars

InitV3d == demo = "v3d" /\ InitState

SpecV3d == InitV3d /\ [][NextV3d]_vars

InitV4a == demo = "v4a" /\ InitState

SpecV4a == InitV4a /\ [][NextV4a]_vars

InitV3a == demo = "v3a" /\ InitState

SpecV3a == InitV3a /\ [][NextV3a]_vars

InitV1 == demo = "v1" /\ InitState

SpecV1 == InitV1 /\ [][NextV1]_vars

InitP2 == demo = "p2" /\ InitState

SpecP2 == InitP2 /\ [][NextP2]_vars

InitV6 == demo = "v6" /\ InitState

SpecV6 == InitV6 /\ [][NextV6]_vars

InitV3c == demo = "v3c" /\ InitState

SpecV3c == InitV3c /\ [][NextV3c]_vars

InitV10a == demo = "v10a" /\ InitState

SpecV10a == InitV10a /\ [][NextV10a]_vars

InitV2 == demo = "v2" /\ InitState

SpecV2 == InitV2 /\ [][NextV2]_vars

InitP1 == demo = "p1" /\ InitState

SpecP1 == InitP1 /\ [][NextP1]_vars

InitV4b == demo = "v4b" /\ InitState

SpecV4b == InitV4b /\ [][NextV4b]_vars

InitV0 == demo = "v0" /\ InitState

SpecV0 == InitV0 /\ [][NextV0]_vars

InitIpc == demo = "ipc" /\ InitState

SpecIpc == InitIpc /\ [][NextIpc]_vars

NextC1 == NextV9 \/ NextV3d

NextC2 == NextV4a \/ NextV3a

InitC2 == demo \in {"v4a", "v3a"} /\ InitState

SpecC2 == InitC2 /\ [][NextC2]_vars

InitC1 == demo \in {"v9", "v3d"} /\ InitState

SpecC1 == InitC1 /\ [][NextC1]_vars

NextC3 == NextV1 \/ NextP2 \/ NextV6

InitC3 == demo \in {"v1", "p2", "v6"} /\ InitState

SpecC3 == InitC3 /\ [][NextC3]_vars

NextC5 == NextV9 \/ NextV6

InitC5 == demo \in {"v9", "v6"} /\ InitState

SpecC5 == InitC5 /\ [][NextC5]_vars

NextC6 == NextV3c \/ NextV3d

InitC6 == demo \in {"v3c", "v3d"} /\ InitState

SpecC6 == InitC6 /\ [][NextC6]_vars

NextC8 == NextV3d \/ NextV3a

InitC8 == demo \in {"v3d", "v3a"} /\ InitState

SpecC8 == InitC8 /\ [][NextC8]_vars

NextC10 == NextV10a \/ NextV3a

InitC10 == demo \in {"v10a", "v3a"} /\ InitState

SpecC10 == InitC10 /\ [][NextC10]_vars

NextC12 == NextV6 \/ NextP2 \/ NextV2

InitC12 == demo \in {"v6", "p2", "v2"} /\ InitState

SpecC12 == InitC12 /\ [][NextC12]_vars

\* v3 (4th demo) and v6 with the remove buttons clicked during a drag
NextC16 ==
    \/ NextV3d
    \/ \E g \in V3dIds(v3d_items) :
          dnd_active # NULL /\ FindGroupIndex(v3d_items, g) # -1 /\ V3dhandleRemoveGroup(g)
    \/ \E id \in V6Ids(v6_elements) : V6handleDragStart(id)
    \/ \E over \in V6Overs(v6_elements) \cup {NoOver}, overRect \in V6Rects :
          \E activeOffsetTop \in V6OffsetsRead(v6_elements, over) :
              V6handleDragOver(over, overRect, activeOffsetTop)
    \/ V6handleDragEnd
    \/ \E g \in V6Ids(v6_elements) : V6removeGroupWhileDragging(g)
    \/ \E i \in 1..Len(v6_elements) :
          \E k \in 1..Len(v6_elements[i].items) :
              /\ dnd_active # NULL
              /\ V6removeItemFromGroup(v6_elements[i].id, v6_elements[i].items[k].id)

InitC16 == demo \in {"v3d", "v6"} /\ InitState

SpecC16 == InitC16 /\ [][NextC16]_vars

\* the two demos whose drop handler sorts a dragged group among the root
\* entries (v9 and v2)
NextC18 == NextV9 \/ NextV2

InitC18 == demo \in {"v9", "v2"} /\ InitState

SpecC18 == InitC18 /\ [][NextC18]_vars

\* the demos whose groups can lose their last child by a drop (v9, v6,
\* part_001), with the removal of a group between two gestures
NextC28 ==
    \/ NextV9
    \/ \E id \in V6Ids(v6_elements) : V6handleDragStart(id)
    \/ \E over \in V6Overs(v6_elements) \cup {NoOver}, overRect \in V6Rects :
          \E activeOffsetTop \in V6OffsetsRead(v6_elements, over) :
              V6handleDragOver(over, overRect, activeOffsetTop)
    \/ V6handleDragEnd
    \/ \E g \in V6Ids(v6_elements) : V6removeGroup(g)
    \/ \E node \in P1Nodes(p1_topLevel, p1_groupItems) : P1handleDragStart(node)
    \/ \E over \in P1Nodes(p1_topLevel, p1_groupItems) \cup {P1NoNode} : P1handleDragEnd(over)
    \/ \E i \in {j \in 1..Len(p1_topLevel) : p1_topLevel[j].type = "group"} :
          removeGroup(p1_topLevel[i].id)

InitC28 == demo \in {"v9", "v6", "p1"} /\ InitState

SpecC28 == InitC28 /\ [][NextC28]_vars

\* the demos that commit in handleDragEnd only (v9, first demo of v3.tsx)
NextC29 == NextV9 \/ NextV3a

InitC29 == demo \in {"v9", "v3a"} /\ InitState

SpecC29 == InitC29 /\ [][NextC29]_vars

\* the two demos with a left and a right column; one bound on the gestures
NextC30 ==
    \/ \E id \in V10Ids(v10a_leftColumnItems, v10a_rightColumnItems, v10a_groups) :
          gestures < TwoColMaxGestures /\ V10handleDragStart(id)
    \/ \E over \in V10Overs(v10a_leftColumnItems, v10a_rightColumnItems, v10a_groups)
                   \cup {NoOver} : V10handleDragOver(over)
    \/ V10handleDragEnd
    \/ \E id \in V4bIds(v4b_leftColumnItems, v4b_rightColumnItems, v4b_groups) :
          V4bhandleDragStart(id)
    \/ \E over \in V4bOvers(v4b_leftColumnItems, v4b_rightColumnItems, v4b_groups)
                   \cup {NoOver} : V4bhandleDragOver(over)
    \/ V4bhandleDragEnd

InitC30 == demo \in {"v10a", "v4b"} /\ InitState

SpecC30 == InitC30 /\ [][NextC30]_vars

\* v6 and the first demo of v3.tsx with the gestures that end in a cancel
NextC33 == NextV6 \/ V6dragCancel \/ NextV3a \/ V3adragCancel

InitC33 == demo \in {"v6", "v3a"} /\ InitState

SpecC33 == InitC33 /\ [][NextC33]_vars

\* the hook called by any caller: a call may come while a stream is running,
\* and within the millisecond of the call before
NextC38 ==
    \/ \E words \in IpcContents, dt \in {0, 1} : streamResponse(words, dt)
    \/ \E k \in 1..IpcMaxStreams : IpcSend(k)
    \/ \E k \in 1..IpcMaxStreams : IpcCatch(k)
    \/ IpcReceive

InitC38 == demo = "ipc" /\ InitState

SpecC38 == InitC38 /\ [][NextC38]_vars

\* the timers of the handlers fire and the renderer receives what was sent
IpcSendSome == \E k \in 1..IpcMaxStreams : IpcSend(k)

SpecIpcLive ==
    InitIpc /\ [][NextIpc]_vars /\ WF_vars(IpcSendSome) /\ WF_vars(IpcReceive)

(***************************************************************************)
(* Properties                                                              *)
(***************************************************************************)
\* occurrences of id in the v9 tree (root order and every group's itemIds)
V9Occurrences(st, id) ==
    Count(st.rootOrder, id)
    + Cardinality({<<g, k>> \in (DOMAIN st.itemIds) \X (1..Cardinality(V9ItemIds) + 1) :
                      k <= Len(st.itemIds[g]) /\ st.itemIds[g][k] = id})

\* occurrences of id in the nested v3 list (top level and every group's items)
V3dOccurrences(items, id) ==
    Cardinality({i \in 1..Len(items) : items[i].id = id})
    + Cardinality({<<i, k>> \in (1..Len(items)) \X (1..Len(items) + 6) :
                      k <= Len(items[i].items) /\ items[i].items[k].id = id})

V3dItemIds == {"item-1", "item-2", "item-3", "item-4", "item-5", "item-6"}

\* C1: after any sequence of completed drag gestures every item id occurs in
\* exactly one place, in the root order or in exactly one group's child
\* list: no duplicates and no orphans (v9 and the fourth demo of v3.tsx).
C1_NoDuplication ==
    /\ demo = "v9"  => \A id \in V9ItemIds : V9Occurrences(v9_appState, id) = 1
    /\ demo = "v3d" => \A id \in V3dItemIds : V3dOccurrences(v3d_items, id) = 1

\* C1 witness: a root item has been committed into a group by a drag end
C1_Witness ==
    /\ demo = "v9"
    /\ gestures >= 1
    /\ Includes(v9_appState.itemIds["group-b"], "item-1")
    /\ ~Includes(v9_appState.rootOrder, "item-1")

RECURSIVE SeqSum(_)
SeqSum(s) == IF s = <<>> THEN 0 ELSE Head(s) + SeqSum(Tail(s))

\* entryCount: items plus groups in the tree
V4aEntryCount(items) ==
    Len(items) + SeqSum([i \in 1..Len(items) |-> Len(items[i].children)])

V3aEntryCount(groups, mainList) ==
    Len(mainList) + SeqSum([i \in 1..Len(groups) |-> Len(groups[i].items)])

EntryCount ==
    CASE demo = "v4a" -> V4aEntryCount(v4a_items)
      [] demo = "v3a" -> V3aEntryCount(v3a_groups, v3a_mainList)
      [] OTHER -> 0

\* a step that completes a drag gesture (a drag end or a cancel)
GestureEnds == dnd_active # NULL /\ dnd_active' = NULL

\* C2: entryCount (items plus groups) is conserved by every completed drag
\* gesture: the total after the gesture equals the total before it.
C2_CountConserved == [][GestureEnds => EntryCount' = EntryCount]_vars

\* the committed item/group structure of the mounted demo
Tree ==
    CASE demo = "v1" -> <<v1_items, v1_groups>>
      [] demo = "p2" -> p2_rootItems
      [] demo = "v6" -> v6_elements
      [] OTHER -> NoSnapshot

\* a step taken while the gesture stays active: a drag-over event
GestureContinues == dnd_active # NULL /\ dnd_active' # NULL

\* C3: while a gesture is active a drag-over event leaves the committed
\* item/group structure as it was: the structure after the event equals the
\* structure before it.
C3_DragOverKeepsTree == [][GestureContinues => Tree' = Tree]_vars

\* C4: a gesture that ends with no target (over is null) leaves the committed
\* tree equal to the snapshot taken when the gesture started, whatever
\* drag-over events it received.
C4_CancelRestoresSnapshot == [][(GestureEnds /\ dnd_over = NoOver) => Tree' = snapshot]_vars

\* every group of the v9 tree is a root entry and no child list holds a group
V9GroupsFlat(st) ==
    /\ \A g \in DOMAIN st.itemIds : Count(st.rootOrder, g) = 1
    /\ \A g \in DOMAIN st.itemIds, h \in DOMAIN st.itemIds : ~Includes(st.itemIds[g], h)

\* no group of the v6 elements holds a group
V6GroupsFlat(elements) ==
    \A i \in 1..Len(elements) :
        \A k \in 1..Len(elements[i].items) : elements[i].items[k].type = "item"

\* C5: groups never reference other groups (depth <= 2): after any sequence
\* of drag gestures, a group dragged over a group or over a grouped item
\* included, every group is a root entry and no group's child list holds a
\* group.
C5_GroupsNeverNest ==
    /\ demo = "v9" => V9GroupsFlat(v9_appState)
    /\ demo = "v6" => V6GroupsFlat(v6_elements)

\* C5 witness: a dragged group was released over another group and changed
\* places with it in the root list
C5_Witness ==
    /\ demo = "v6"
    /\ gestures >= 1
    /\ FindGroupIndex(v6_elements, "group-new-1") # -1
    /\ FindGroupIndex(v6_elements, "group-1") # -1
    /\ FindIndex(v6_elements, "group-new-1") < FindIndex(v6_elements, "group-1")

\* the nested list of the mounted v3 demo
V3Items ==
    CASE demo = "v3c" -> v3c_items
      [] demo = "v3d" -> v3d_items
      [] OTHER -> <<>>

\* the dragged element is a group and the pointer is over an item inside a group
GroupOverGroupItem ==
    /\ demo \in {"v3c", "v3d"}
    /\ dnd_active # NULL
    /\ FindGroupIndex(V3Items, dnd_active) # -1
    /\ dnd_over.type = "groupItem"

\* C6: group isolation: a move whose element is a group and whose destination
\* is a position inside a group (a group dropped on an item that is inside a
\* group) is rejected as a no-op: the tree after the drop is the tree before.
C6_GroupIsolation == [][(GroupOverGroupItem /\ GestureEnds) => V3Items' = V3Items]_vars

\* C6 witness: in the third demo a dragged group is held over an item of
\* another group after an earlier gesture, the state the drop is taken from
C6_Witness ==
    /\ demo = "v3c"
    /\ gestures >= 1
    /\ GroupOverGroupItem
    /\ dnd_over.groupId # dnd_active

\* the root order after item a is released on the above/below zone of a group
V9AfterZoneDrop(st, a, over) == V9DragEndUpdate(st, a, over).rootOrder

\* C7: a drop on an above/after-group zone (never a plain same-container
\* reorder) removes the element from its source first and recomputes the
\* target index on the intermediate tree: the item ends immediately before
\* (above zone) or immediately after (below zone) the group, whether it sat
\* before or after that group in the root list.  Stated for every item and
\* every mounted zone of every reachable v9 tree.
C7_LandsNextToTarget ==
    demo = "v9" =>
        \A a \in V9ItemIds :
            \A over \in {o \in V9Overs(v9_appState, a) : V9targetIsDropZone(o)} :
                LET order == V9AfterZoneDrop(v9_appState, a, over)
                IN  IF over.type = "dropzone-above"
                    THEN IndexOf(order, a) = IndexOf(order, over.groupId) - 1
                    ELSE IndexOf(order, a) = IndexOf(order, over.groupId) + 1

\* remove at index s, insert at index d, d decremented by one when s < d
IndexShift(arr, s, d) ==
    SpliceInsert(SpliceRemove(arr, s), IF s < d THEN d - 1 ELSE d, arr[s + 1])

\* fourth demo of v3.tsx: the drop pending in this state stays in one container
V3dSameContainerDrop ==
    /\ demo = "v3d"
    /\ dnd_active # NULL
    /\ dnd_over # NoOver
    /\ dnd_active # dnd_over.id
    /\ LET found == V3dfindItemOrGroup(v3d_items, dnd_active)
       IN  /\ found.ok
           /\ found.parentId =
                  V3dTarget(v3d_items, dnd_over, found.item, found.parentId).p

\* the list the spec's rule yields for the pending same-container drop
V3dIndexShifted ==
    LET found == V3dfindItemOrGroup(v3d_items, dnd_active)
        tgt   == V3dTarget(v3d_items, dnd_over, found.item, found.parentId)
        gi    == FindIndex(v3d_items, tgt.p)
    IN  IF tgt.p = NULL
        THEN IndexShift(v3d_items, FindIndex(v3d_items, dnd_active), tgt.i)
        ELSE [v3d_items EXCEPT ![gi + 1].items =
                 IndexShift(@, FindIndex(@, dnd_active), tgt.i)]

\* first demo of v3.tsx: the drop pending in this state reorders the main list
\* through a spacer
V3aSpacerReorder ==
    /\ demo = "v3a"
    /\ dnd_active # NULL
    /\ dnd_over # NoOver
    /\ V3aIsSpacer(v3a_mainList, dnd_over.id)
    /\ FindIndex(v3a_mainList, dnd_active) # -1

V3aSpacerIndex ==
    IF dnd_over.id = "spacer-after-last" THEN Len(v3a_mainList)
    ELSE FindIndex(v3a_mainList, V3aSpacerTarget(v3a_mainList, dnd_over.id))

\* C8: a same-container move (both root, or both the same group) removes the
\* element at its source index and inserts it at the destination index,
\* decremented by one when the source index is less than it; the rule is the
\* same within the root and within a group.  Stated on the tree that the drop
\* pending in each reachable state commits.
C8_SameContainerIndexShift ==
    /\ V3dSameContainerDrop =>
           V3dDragEndUpdate(v3d_items, dnd_active, dnd_over) = V3dIndexShifted
    /\ V3aSpacerReorder =>
           V3aDragEnd([items |-> v3a_items, groups |-> v3a_groups,
                       mainList |-> v3a_mainList],
                      dnd_active, v3a_activeType, v3a_dropIndicator,
                      dnd_over, v3a_nextId).mainList
             = IndexShift(v3a_mainList, FindIndex(v3a_mainList, dnd_active), V3aSpacerIndex)

\* v6: the preview shows an insertion line before or after the hovered element
V6PreviewBeside ==
    /\ demo = "v6"
    /\ dnd_active # NULL
    /\ dnd_over # NoOver
    /\ v6_dropTarget.id = dnd_over.id
    /\ v6_dropTarget.type \in {"before-element", "after-element"}

\* v6: the elements the drop pending in this state commits
V6Committed ==
    V6DragEnd(v6_elements, v6_activeElement, v6_activeItemFromGroup, v6_dropTarget,
              dnd_active, dnd_over)

\* C9: on release over a valid target the committed tree is the move to the
\* previewed destination: the dragged element ends exactly at the insertion
\* point last computed for the preview, immediately before or immediately
\* after the hovered element.  Stated on the tree that the drop pending in
\* each reachable state commits.
C9_CommitMatchesPreview ==
    V6PreviewBeside =>
        IF v6_dropTarget.type = "before-element"
        THEN FindIndex(V6Committed, dnd_active) = FindIndex(V6Committed, dnd_over.id) - 1
        ELSE FindIndex(V6Committed, dnd_active) = FindIndex(V6Committed, dnd_over.id) + 1

\* v10a: the dragged root element of the right column is held over a drop
\* zone that marks its own current position: a zone of the dragged group
\* itself, the bottom zone of the group just before it or the top zone of the
\* group just after it
V10OnAdjacentZone ==
    /\ demo = "v10a"
    /\ dnd_active # NULL
    /\ Includes(v10a_rightColumnItems, dnd_active)
    /\ dnd_over.id \in V10ZoneIds
    /\ LET z == V10findZone(v10a_groups, dnd_over.id)
           a == IndexOf(v10a_rightColumnItems, dnd_active)
           g == IndexOf(v10a_rightColumnItems, z.groupId)
       IN  \/ g = a
           \/ z.position = "bottom" /\ g = a - 1
           \/ z.position = "top" /\ g = a + 1

\* v10a: the tree the drop pending in this state commits
V10Committed ==
    V10DragEnd(v10a_leftColumnItems, v10a_rightColumnItems, v10a_groups,
               v10a_overDropZone, dnd_active, dnd_over)

\* v3a: the dragged main-list entry is held over the spacer before itself or
\* the spacer before its successor (after-last for the last entry)
V3aOnAdjacentSpacer ==
    /\ V3aSpacerReorder
    /\ LET a == FindIndex(v3a_mainList, dnd_active)
       IN  V3aSpacerIndex = a \/ V3aSpacerIndex = a + 1

\* v3a: the main list the drop pending in this state commits
V3aCommittedMainList ==
    V3aDragEnd([items |-> v3a_items, groups |-> v3a_groups, mainList |-> v3a_mainList],
               dnd_active, v3a_activeType, v3a_dropIndicator, dnd_over,
               v3a_nextId).mainList

\* C10: idempotence: moving an element to the location it already occupies
\* yields the original tree; a drop on the element itself, or on the spacer /
\* drop zone adjacent to its own current position, changes no ordering.
\* Stated on the tree that the drop pending in each reachable state commits.
C10_Idempotent ==
    /\ V10OnAdjacentZone =>
           V10Committed = [left |-> v10a_leftColumnItems, right |-> v10a_rightColumnItems,
                           groups |-> v10a_groups]
    /\ (demo = "v10a" /\ dnd_active # NULL /\ dnd_over.id = dnd_active) =>
           V10Committed = [left |-> v10a_leftColumnItems, right |-> v10a_rightColumnItems,
                           groups |-> v10a_groups]
    /\ V3aOnAdjacentSpacer => V3aCommittedMainList = v3a_mainList
    /\ (demo = "v3a" /\ dnd_active # NULL /\ dnd_over.id = dnd_active) =>
           V3aCommittedMainList = v3a_mainList

(***************************************************************************)
(* Removing a group                                                        *)
(***************************************************************************)
\* ids of the items of a v4 (1st demo) tree, at root or inside a group
V4aItemIdsOf(items) ==
    {items[i].id : i \in {j \in 1..Len(items) : items[j].type = "item"}}
    \cup UNION {{items[i].children[k].id : k \in 1..Len(items[i].children)} :
                   i \in 1..Len(items)}

\* a Remove button was clicked: a group left the root list outside a gesture
V4aGroupRemoved ==
    /\ demo = "v4a"
    /\ dnd_active = NULL /\ dnd_active' = NULL
    /\ V4aGroupIds(v4a_items') # V4aGroupIds(v4a_items)
    /\ V4aGroupIds(v4a_items') \subseteq V4aGroupIds(v4a_items)

\* C11: removing a group loses no item: every item that was a child of the
\* removed group (and every other item) is still in the tree afterwards.
C11_RemoveGroupKeepsChildren ==
    [][V4aGroupRemoved => V4aItemIdsOf(v4a_items) \subseteq V4aItemIdsOf(v4a_items')]_vars

\* the root list of the demos whose Remove button relocates the children
RootList ==
    CASE demo = "v6" -> v6_elements
      [] demo = "p2" -> p2_rootItems
      [] demo = "v2" -> v2_rootItems
      [] OTHER -> <<>>

\* the group at root position i (1-based) left the root list outside a gesture
GroupRemovedAt(i) ==
    /\ dnd_active = NULL /\ dnd_active' = NULL
    /\ RootList[i].type \in {"group", "GROUP"}
    /\ FindIndex(RootList', RootList[i].id) = -1

\* new is old with the entry at position i replaced by that entry's children
RelocatedAt(old, new, i) ==
    LET kids == old[i].items IN
    /\ Len(new) = Len(old) - 1 + Len(kids)
    /\ \A k \in 1..Len(new) :
          new[k] = IF k < i THEN old[k]
                   ELSE IF k < i + Len(kids) THEN kids[k - i + 1]
                   ELSE old[k - Len(kids) + 1]

\* C12: removing a group puts its children at the group's former root index,
\* in their original order; the other root entries keep their relative order.
C12_RemoveGroupRelocates ==
    [][\A i \in 1..Len(RootList) :
          GroupRemovedAt(i) => RelocatedAt(RootList, RootList', i)]_vars

(***************************************************************************)
(* part_001: group references and container entries                        *)
(***************************************************************************)
\* the 1-based positions of the references to group g in topLevel
P1GroupRefs(topLevel, g) ==
    {i \in 1..Len(topLevel) : topLevel[i].type = "group" /\ topLevel[i].id = g}

\* C13: every group id referenced in the root list is a key of the groups map
\* and is referenced exactly once in the root list.
C13_GroupRefsExistOnce ==
    demo = "p1" =>
        \A i \in 1..Len(p1_topLevel) :
            p1_topLevel[i].type = "group" =>
                /\ p1_topLevel[i].id \in DOMAIN p1_groupItems
                /\ Cardinality(P1GroupRefs(p1_topLevel, p1_topLevel[i].id)) = 1

\* the entries of arr are pairwise distinct
NoRepeats(arr) == \A i, j \in 1..Len(arr) : arr[i] = arr[j] => i = j

\* C14: no container holds two entries with the same id: the draggable ids of
\* the root list and of every group's child list are pairwise distinct.
C14_NoDuplicateEntries ==
    demo = "p1" =>
        /\ NoRepeats(P1topLevelIds(p1_topLevel))
        /\ \A g \in DOMAIN p1_groupItems : NoRepeats(P1groupItemIds(p1_groupItems, g))

(***************************************************************************)
(* Index clamping of the insertion step (v9, v3 4th demo)                  *)
(***************************************************************************)
\* i clamped to [0, len]
Clamp(i, len) == IF i < 0 THEN 0 ELSE IF i > len THEN len ELSE i

\* after is before with x added at the 0-based index i, nothing else moved
PlacedAt(before, after, x, i) ==
    /\ Len(after) = Len(before) + 1
    /\ after[i + 1] = x
    /\ \A k \in 1..Len(before) : before[k] = after[IF k <= i THEN k ELSE k + 1]

\* the target indexes requested besides the ones the handlers compute
IndexRequests == {0, 1, 2, 3, 9999}

V9Container(st, c) == IF c = "root" THEN st.rootOrder ELSE st.itemIds[c]

V9SourceOf(st, a) == IF st.groupId[a] # NULL THEN st.groupId[a] ELSE "root"

\* the target of an item drop, as V9DragEndUpdate passes it on
V9DropTarget(st, over) ==
    IF V9findGroup(over.id, st) /\ over.id = V9Target(st, over).c
    THEN [c |-> over.id, i |-> Len(st.itemIds[over.id])]
    ELSE V9Target(st, over)

\* item a released on over is removed from its container and added to another
V9MovesBetween(st, a, over) ==
    /\ over.id # a
    /\ ~(V9SourceOf(st, a) = V9DropTarget(st, over).c /\ ~V9targetIsDropZone(over))

\* v9: removing item a and adding it to container c at index i puts it at the
\* clamped index and loses nothing
V9InsertClamped(st, a, c, i) ==
    LET rem == V9RemoveFromSource(st, a, V9SourceOf(st, a))
        out == V9AddToTarget(rem, st, a, c, i)
    IN  /\ PlacedAt(V9Container(rem, c), V9Container(out, c), a,
                    Clamp(i, Len(V9Container(rem, c))))
        /\ c # "root" => out.rootOrder = rem.rootOrder
        /\ \A g \in V9GroupIds \ {c} : out.itemIds[g] = rem.itemIds[g]
        /\ FilterOut(V9Container(out, c), a) = FilterOut(V9Container(st, c), a)

V3dContainer(items, p) == IF p = NULL THEN items ELSE items[FindIndex(items, p) + 1].items

\* v3 (4th demo): the same for the entry a moved to the container of parent p
V3dInsertClamped(items, a, p, i) ==
    LET rem == V3dRemove(items, a, V3dfindItemOrGroup(items, a).parentId)
        out == V3dInsert(rem.items, items, rem.moved, [p |-> p, i |-> i])
    IN  /\ PlacedAt(V3dContainer(rem.items, p), V3dContainer(out, p), rem.moved,
                    Clamp(i, Len(V3dContainer(rem.items, p))))
        /\ V3dIds(out) = V3dIds(items)

\* the drop of a on over takes the remove-and-insert path of V3dDragEndUpdate
V3dMovesBetween(items, a, over) ==
    LET found == V3dfindItemOrGroup(items, a)
        tgt == V3dTarget(items, over, found.item, found.parentId)
    IN  /\ ~(tgt.p # NULL /\ found.item.type = "group")
        /\ found.parentId # tgt.p

V3dGroupIdsOf(items) == {items[i].id : i \in {j \in 1..Len(items) : items[j].type = "group"}}

\* C15: the insertion step clamps the target index to [0, length of the
\* container after the removal]: an index past the end (9999 into a group of
\* two) inserts at the end, and no element is lost, for the indexes the
\* handlers compute and for every requested index.  Stated for the tree of
\* every state between two gestures.
C15_IndexClamped ==
    /\ (demo = "v9" /\ dnd_active = NULL) =>
          \A a \in V9ItemIds :
              /\ \A over \in V9Overs(v9_appState, a) :
                    V9MovesBetween(v9_appState, a, over) =>
                        V9InsertClamped(v9_appState, a,
                            V9DropTarget(v9_appState, over).c,
                            V9DropTarget(v9_appState, over).i)
              /\ \A c \in ({"root"} \cup V9GroupIds) \ {V9SourceOf(v9_appState, a)} :
                    \A i \in IndexRequests : V9InsertClamped(v9_appState, a, c, i)
    /\ (demo = "v3d" /\ dnd_active = NULL) =>
          \A a \in V3dIds(v3d_items) :
              /\ \A over \in V3dOvers(v3d_items) :
                    V3dMovesBetween(v3d_items, a, over) =>
                        LET found == V3dfindItemOrGroup(v3d_items, a)
                            tgt == V3dTarget(v3d_items, over, found.item, found.parentId)
                        IN  V3dInsertClamped(v3d_items, a, tgt.p, tgt.i)
              /\ \A p \in (V3dGroupIdsOf(v3d_items) \cup {NULL})
                          \ {V3dfindItemOrGroup(v3d_items, a).parentId, a} :
                    (p # NULL => V3dfindItemOrGroup(v3d_items, a).item.type = "item") =>
                        \A i \in IndexRequests : V3dInsertClamped(v3d_items, a, p, i)

\* a drop in progress in v9 whose computed index lies past the end of the
\* target container once the item is removed, and lands at the end
C15_Witness ==
    /\ demo = "v9" /\ dnd_active \in V9ItemIds /\ gestures >= 1
    /\ \E over \in V9Overs(v9_appState, dnd_active) :
          LET tgt == V9DropTarget(v9_appState, over)
              rem == V9RemoveFromSource(v9_appState, dnd_active,
                                        V9SourceOf(v9_appState, dnd_active))
              out == V9DragEndUpdate(v9_appState, dnd_active, over)
          IN  /\ V9MovesBetween(v9_appState, dnd_active, over)
              /\ tgt.i > Len(V9Container(rem, tgt.c))
              /\ V9Container(out, tgt.c)[Len(V9Container(out, tgt.c))] = dnd_active

(***************************************************************************)
(* The dragged entry is gone at drag end                                   *)
(***************************************************************************)
\* the node being dragged is no longer in the tree
DraggedIdMissing ==
    /\ dnd_active # NULL
    /\ CASE demo = "v3d" -> dnd_active \notin V3dIds(v3d_items)
         [] demo = "v6" -> dnd_active \notin V6Ids(v6_elements)
         [] OTHER -> FALSE

C17_InputNotMutated ==
    [][(demo = "v4a" /\ GestureEnds) => v4a_inputNow' = v4a_items]_vars

(***************************************************************************)
(* A dragged group never enters a group                                    *)
(***************************************************************************)
\* the group an "over" node of v9 resolves to: the group itself, or the
\* group holding the hovered item; NULL for a node of the root level
V9OverGroup(st, over) ==
    IF V9findGroup(over.id, st) THEN over.id
    ELSE IF V9findItem(over.id, st) THEN st.groupId[over.id]
    ELSE NULL

\* the same for v2 (data.current.parentId of the hovered item)
V2OverGroup(over) ==
    IF over.type = "GROUP" THEN over.id
    ELSE IF over.type = "ITEM" THEN over.groupId
    ELSE NULL

\* the dragged group a sits at the root index that g had before the drop
V9GroupLandsAt(st, out, a, g) ==
    /\ IndexOf(out.rootOrder, a) = IndexOf(st.rootOrder, g)
    /\ out.itemIds = st.itemIds
    /\ out.groupId = st.groupId

V2GroupLandsAt(items, out, a, g) ==
    /\ FindIndex(out, a) = FindIndex(items, g)
    /\ \A i \in 1..Len(out) : \E j \in 1..Len(items) : out[i] = items[j]

\* C18: while a group is dragged, a release over another group, or over an
\* item inside another group, commits a tree with the dragged group at the
\* root index of that group, and no group's children changed.
C18_GroupDropCollapses ==
    /\ (demo = "v9" /\ dnd_active # NULL /\ V9findGroup(dnd_active, v9_appState)) =>
           \A over \in V9Overs(v9_appState, dnd_active) :
               LET g == V9OverGroup(v9_appState, over) IN
               (g # NULL /\ g # dnd_active) =>
                   V9GroupLandsAt(v9_appState,
                                  V9DragEndUpdate(v9_appState, dnd_active, over),
                                  dnd_active, g)
    /\ (demo = "v2" /\ dnd_active # NULL
            /\ P2findItemType(v2_rootItems, dnd_active) = "GROUP") =>
           LET g == V2OverGroup(dnd_over) IN
           (g # NULL /\ g # dnd_active) =>
               V2GroupLandsAt(v2_rootItems,
                              V2DragEnd(v2_rootItems, v2_activeParentId,
                                        dnd_active, dnd_over),
                              dnd_active, g)

\* the v9 half of C18 alone
C18_V9GroupDropCollapses ==
    (demo = "v9" /\ dnd_active # NULL /\ V9findGroup(dnd_active, v9_appState)) =>
        \A over \in V9Overs(v9_appState, dnd_active) :
            LET g == V9OverGroup(v9_appState, over) IN
            (g # NULL /\ g # dnd_active) =>
                V9GroupLandsAt(v9_appState,
                               V9DragEndUpdate(v9_appState, dnd_active, over),
                               dnd_active, g)

(***************************************************************************)
(* An item released over an item lands next to it                          *)
(***************************************************************************)
\* v10a: the list that holds the id: a column's root list or a group's
\* children; <<>> when no list holds it
V10ListOf(left, right, groups, id) ==
    IF Includes(left, id) THEN left
    ELSE IF Includes(right, id) THEN right
    ELSE IF V10InAGroup(groups, id)
    THEN groups[CHOOSE i \in 1..Len(groups) : Includes(groups[i].items, id)].items
    ELSE <<>>

\* a and b are neighbours in one list
Adjacent(list, a, b) ==
    /\ Includes(list, a)
    /\ Includes(list, b)
    /\ IndexOf(list, a) - IndexOf(list, b) \in {-1, 1}

\* C19: while an item is dragged over another item, the release commits a
\* tree where the dragged item is in the list of the hovered item (a root
\* list or a group's children) and next to it.
C19_ItemLandsNextToItem ==
    (demo = "v10a" /\ dnd_active # NULL /\ dnd_over # NoOver
        /\ getItemType(dnd_active) = "item" /\ getItemType(dnd_over.id) = "item"
        /\ dnd_active # dnd_over.id) =>
        LET r == V10DragEnd(v10a_leftColumnItems, v10a_rightColumnItems, v10a_groups,
                            v10a_overDropZone, dnd_active, dnd_over)
        IN  Adjacent(V10ListOf(r.left, r.right, r.groups, dnd_over.id),
                     dnd_active, dnd_over.id)

(***************************************************************************)
(* Margin bands of a hovered group (v6)                                    *)
(***************************************************************************)
\* rects of a hovered group (a short one, one whose quarter is not a whole
\* number of pixels, and two where the 20px cap applies) and tops of the
\* dragged node around the band limits
BandRects == {[top |-> t, height |-> h] : t \in {0, 100}, h \in {40, 42, 80, 120}}

BandOffsets(rect) ==
    {rect.top + d : d \in {-1, 0, 9, 10, 11, 19, 20, 21, 29, 30}}
    \cup {rect.top + rect.height - d : d \in {-1, 0, 9, 10, 11, 19, 20, 21, 29, 30}}

\* the band the top y falls in, for a band of min(25% of the height, 20px):
\* four times the band is min(height, 80)
BandOf(rect, y) ==
    IF 4 * (y - rect.top) < Min(rect.height, 80) THEN "top"
    ELSE IF 4 * (rect.top + rect.height - y) < Min(rect.height, 80) THEN "bottom"
    ELSE "middle"

\* the root groups of v6 other than the one that holds the dragged item
V6HoverableGroups ==
    {v6_elements[i].id : i \in {j \in 1..Len(v6_elements) :
        /\ v6_elements[j].type = "group"
        /\ v6_elements[j].id # dnd_active
        /\ FindIndex(v6_elements[j].items, dnd_active) = -1}}

\* the elements committed when the drag of dnd_active enters the group g at
\* (rect, y) and is released there: handleDragOver, then handleDragEnd
V6HoverThenDrop(g, rect, y) ==
    LET over == [id |-> g, type |-> NULL, groupId |-> NULL]
        st1  == V6DragOver([elements |-> v6_elements,
                            activeItemFromGroup |-> v6_activeItemFromGroup,
                            dropTarget |-> v6_dropTarget,
                            lastClientOffset |-> v6_lastClientOffset],
                           dnd_active, over, rect, y)
    IN  V6DragEnd(st1.elements, v6_activeElement, st1.activeItemFromGroup,
                  st1.dropTarget, dnd_active, over)

\* where the band sends the dragged item a relative to the group g
V6PlacedByBand(out, a, g, band) ==
    LET gi == FindIndex(out, g) IN
    /\ gi # -1
    /\ CASE band = "middle" ->
              /\ FindIndex(out, a) = -1
              /\ Len(out[gi + 1].items) > 0
              /\ out[gi + 1].items[Len(out[gi + 1].items)].id = a
         [] band = "top" ->
              /\ FindIndex(out, a) # -1
              /\ FindIndex(out, a) + 1 = gi
              /\ V6GroupOf(out, a) = NULL
         [] band = "bottom" ->
              /\ FindIndex(out, a) = gi + 1
              /\ V6GroupOf(out, a) = NULL

\* the band rule for an item dragged from the root list (the branch "If
\* dragging an item to a group" of handleDragEnd)
C20_RootItemBands ==
    (demo = "v6" /\ dnd_active # NULL /\ v6_activeElement.type = "item"
        /\ v6_activeItemFromGroup = V6NoFromGroup
        /\ FindIndex(v6_elements, dnd_active) # -1) =>
        \A g \in V6HoverableGroups : \A rect \in BandRects : \A y \in BandOffsets(rect) :
            V6PlacedByBand(V6HoverThenDrop(g, rect, y), dnd_active, g, BandOf(rect, y))

\* C20: an item dragged over a group of height h and released there ends as
\* the last child of the group when its top is outside the two bands of
\* min(25% of h, 20px), at the root immediately before the group when it is in
\* the top band, and at the root immediately after it when it is in the bottom
\* band.
C20_GroupBands ==
    (demo = "v6" /\ dnd_active # NULL /\ v6_activeElement.type = "item") =>
        \A g \in V6HoverableGroups : \A rect \in BandRects : \A y \in BandOffsets(rect) :
            V6PlacedByBand(V6HoverThenDrop(g, rect, y), dnd_active, g, BandOf(rect, y))

(***************************************************************************)
(* The drop classification depends on its inputs only (v6)                 *)
(***************************************************************************)
\* the drop target handleDragOver records for the event (over, overRect,
\* activeOffsetTop) when the ref lastClientOffset holds last
V6Classify(last, over, overRect, activeOffsetTop) ==
    V6DragOver([elements |-> v6_elements,
                activeItemFromGroup |-> v6_activeItemFromGroup,
                dropTarget |-> v6_dropTarget,
                lastClientOffset |-> last],
               dnd_active, over, overRect, activeOffsetTop).dropTarget

\* C21: during a drag, the drop target recorded for an event (active id, over
\* id, over rect, top of the dragged node) is the same whatever events came
\* before: the value the ref lastClientOffset kept from an earlier event does
\* not change it.
C21_ClassifierIsPure ==
    (demo = "v6" /\ dnd_active # NULL) =>
        \A over \in V6Overs(v6_elements), overRect \in V6Rects :
            \A activeOffsetTop \in V6Offsets :
                V6Classify(v6_lastClientOffset, over, overRect, activeOffsetTop)
                    = V6Classify(V6NoOffset, over, overRect, activeOffsetTop)

(***************************************************************************)
(* A release over nothing                                                  *)
(***************************************************************************)
\* C22: while an element is dragged, a release with over = null commits a
\* tree whose root list ends with the dragged element.
C22_NoOverAppendsToRoot ==
    /\ (demo = "v9" /\ dnd_active # NULL) =>
           LET out == V9DragEnd(v9_appState, dnd_active, NoOver) IN
           /\ Len(out.rootOrder) > 0
           /\ out.rootOrder[Len(out.rootOrder)] = dnd_active
    /\ (demo = "v6" /\ dnd_active # NULL) =>
           LET out == V6DragEnd(v6_elements, v6_activeElement, v6_activeItemFromGroup,
                                v6_dropTarget, dnd_active, NoOver)
           IN  /\ Len(out) > 0
               /\ out[Len(out)].id = dnd_active

(***************************************************************************)
(* A drop on the placeholder of an empty group (part_001)                  *)
(***************************************************************************)
\* the root groups without children: the ones that render the placeholder
P1EmptyGroups(topLevel, groupItems) ==
    {topLevel[i].id : i \in {j \in 1..Len(topLevel) :
        topLevel[j].type = "group" /\ P1ItemsOf(groupItems, topLevel[j].id) = <<>>}}

\* the drop of the dragged node over the node "over" leaves the group g with
\* the dragged item as its only child
P1OnlyChildAfterDrop(g, over) ==
    LET r == P1DragEnd(p1_topLevel, p1_groupItems,
                       [id |-> dnd_active, container |-> p1_activeData.container,
                        content |-> p1_activeData.content], over)
    IN  /\ Len(P1ItemsOf(r.groupItems, g)) = 1
        /\ P1ItemsOf(r.groupItems, g)[1].id = parseDraggableId(dnd_active).itemId

\* C23: while an item is dragged and a root group is empty, a release on the
\* placeholder of that group makes the item the group's only child.  The over
\* node of the release is one of the nodes the DndContext knows (closestCenter
\* over the registered nodes); the property asks only that one of them leads
\* to this outcome.
C23_PlaceholderDropFillsGroup ==
    (demo = "p1" /\ dnd_active # NULL
        /\ parseDraggableId(dnd_active).type \in {"top-item", "group-item"}) =>
        \A g \in P1EmptyGroups(p1_topLevel, p1_groupItems) :
            \E over \in P1Nodes(p1_topLevel, p1_groupItems) : P1OnlyChildAfterDrop(g, over)

(***************************************************************************)
(* A group dragged over a root entry (v6)                                  *)
(***************************************************************************)
\* the quarter of the hovered box the top y of the dragged node falls in
QuarterOf(rect, y) ==
    IF 4 * (y - rect.top) < rect.height THEN "upper"
    ELSE IF 4 * (rect.top + rect.height - y) < rect.height THEN "lower"
    ELSE "middle"

\* where the quarter sends the dragged group a relative to the root entry e
V6PlacedByQuarter(out, a, e, quarter) ==
    LET ai == FindIndex(out, a)
        ei == FindIndex(out, e)
    IN  /\ ai # -1
        /\ ei # -1
        /\ CASE quarter = "upper"  -> ai + 1 = ei
             [] quarter = "lower"  -> ai = ei + 1
             [] quarter = "middle" -> ai + 1 = ei \/ ai = ei + 1

\* C24: a group dragged over another root entry and released there ends
\* immediately before the entry when the pointer is in the upper quarter of
\* the entry's box, immediately after it in the lower quarter, and next to it
\* in the middle half.
C24_GroupBesideRootEntry ==
    (demo = "v6" /\ dnd_active # NULL /\ v6_activeElement.type = "group"
        /\ FindIndex(v6_elements, dnd_active) # -1) =>
        \A i \in 1..Len(v6_elements) :
            v6_elements[i].id # dnd_active =>
                \A rect \in BandRects : \A y \in BandOffsets(rect) :
                    V6PlacedByQuarter(V6HoverThenDrop(v6_elements[i].id, rect, y),
                                      dnd_active, v6_elements[i].id, QuarterOf(rect, y))

(***************************************************************************)
(* The move step of the drop handlers: remove from source, insert into     *)
(* target (v9 "B. Moving BETWEEN containers", v3 "2. Perform Move")        *)
(***************************************************************************)
\* v9: the item a moved to index i of the container c ("root" or a group id)
V9Move(st, a, c, i) ==
    V9AddToTarget(V9RemoveFromSource(st, a, V9SourceOf(st, a)), st, a, c, i)

\* v3d: the entry a moved to index i of the parent p (NULL for the root)
V3dMove(items, a, p, i) ==
    LET rem == V3dRemove(items, a, V3dfindItemOrGroup(items, a).parentId) IN
    IF ~rem.ok THEN items
    ELSE V3dInsert(rem.items, items, rem.moved, [p |-> p, i |-> i])

\* C25: in every tree between two gestures, for a root item X at root index
\* i (index 2 included) and a group A: moving X to index 0 of A and then back
\* to root index i gives the tree back, root order and every group's
\* children.
C25_RoundTrip ==
    /\ (demo = "v9" /\ dnd_active = NULL) =>
           \A i \in 1..Len(v9_appState.rootOrder) :
               LET X == v9_appState.rootOrder[i] IN
               X \in V9ItemIds =>
                   \A A \in DOMAIN v9_appState.itemIds :
                       V9Move(V9Move(v9_appState, X, A, 0), X, "root", i - 1) = v9_appState
    /\ (demo = "v3d" /\ dnd_active = NULL) =>
           \A i \in 1..Len(v3d_items) :
               v3d_items[i].type = "item" =>
                   \A A \in V3dGroupIdsOf(v3d_items) :
                       V3dMove(V3dMove(v3d_items, v3d_items[i].id, A, 0),
                               v3d_items[i].id, NULL, i - 1) = v3d_items

\* a gesture has moved a root item from root index 2 to index 0 of a group,
\* and the move back to root index 2 gives the initial tree
C25_Witness ==
    \/ /\ demo = "v9" /\ dnd_active = NULL /\ gestures = 1
       /\ v9_appState # V9initialData
       /\ \E A \in DOMAIN v9_appState.itemIds :
             /\ Len(v9_appState.itemIds[A]) > 0
             /\ V9Move(v9_appState, v9_appState.itemIds[A][1], "root", 2) = V9initialData
    \/ /\ demo = "v3d" /\ dnd_active = NULL /\ gestures = 1
       /\ v3d_items # V3dinitialItems
       /\ \E A \in V3dGroupIdsOf(v3d_items) :
             LET kids == v3d_items[FindGroupIndex(v3d_items, A) + 1].items IN
             /\ Len(kids) > 0
             /\ V3dMove(v3d_items, kids[1].id, NULL, 2) = V3dinitialItems

(***************************************************************************)
(* Scenario: a root item dropped at position 1 of a group                  *)
(***************************************************************************)
\* <<b, d, c, ...>> from <<b, c, ...>>
WithSecond(kids, d) == <<kids[1], d>> \o SubSeq(kids, 2, Len(kids))

\* C26: in every tree between two gestures, a root item d released over the
\* second child c of a group g1 = [b, c, ...] commits the tree with
\* g1 = [b, d, c, ...], d gone from the root list, and everything else as it
\* was (from [a, g1:[b, c], d]: [a, g1:[b, d, c]]).
C26_ItemIntoGroupAtOne ==
    /\ (demo = "v9" /\ dnd_active = NULL) =>
           \A g1 \in DOMAIN v9_appState.itemIds :
               \A d \in {x \in V9ItemIds : Includes(v9_appState.rootOrder, x)} :
                   (Len(v9_appState.itemIds[g1]) >= 2) =>
                       LET kids == v9_appState.itemIds[g1]
                           out  == V9DragEnd(v9_appState, d,
                                       [id |-> kids[2], type |-> "item", groupId |-> NULL])
                       IN  /\ out.itemIds = [v9_appState.itemIds EXCEPT
                                                ![g1] = WithSecond(kids, d)]
                           /\ out.rootOrder = FilterOut(v9_appState.rootOrder, d)
                           /\ out.groupId = [v9_appState.groupId EXCEPT ![d] = g1]
    /\ (demo = "v3d" /\ dnd_active = NULL) =>
           \A gi \in 1..Len(v3d_items) : \A di \in 1..Len(v3d_items) :
               (/\ v3d_items[gi].type = "group"
                /\ Len(v3d_items[gi].items) >= 2
                /\ v3d_items[di].type = "item") =>
                   LET g1   == v3d_items[gi]
                       d    == v3d_items[di]
                       out  == V3dDragEndUpdate(v3d_items, d.id,
                                   [id |-> g1.items[2].id, type |-> "groupItem",
                                    groupId |-> g1.id])
                   IN  out = FilterOutId([v3d_items EXCEPT
                                 ![gi].items = WithSecond(g1.items, d)], d.id)

\* the scenario has run on the initial tree of a demo: item-4 was released
\* over item-3, the second child of the first group
C26_Witness ==
    /\ gestures = 1
    /\ dnd_active = NULL
    /\ \/ /\ demo = "v9"
          /\ v9_appState.itemIds["group-a"] = <<"item-2", "item-4", "item-3">>
          /\ v9_appState.rootOrder = <<"item-1", "group-a", "group-b", "item-6">>
       \/ /\ demo = "v3d"
          /\ v3d_items[2] = Gr("group-1", <<It("item-2"), It("item-4"), It("item-3")>>)
          /\ Len(v3d_items) = 5

(***************************************************************************)
(* Scenario: a group dropped at the head of the root list                  *)
(***************************************************************************)
\* C27: in every tree between two gestures, a root group g1 released over
\* the first root entry commits the root list with g1 first and the other
\* entries in their order, and no group's children changed (from
\* [a, g1:[b, c], d]: [g1:[b, c], a, d]).
C27_GroupToHead ==
    /\ (demo = "v9" /\ dnd_active = NULL) =>
           \A g1 \in {g \in V9GroupIds : Includes(v9_appState.rootOrder, g)} :
               LET first == v9_appState.rootOrder[1]
                   out   == V9DragEnd(v9_appState, g1,
                                [id |-> first, type |-> V9activeType(first),
                                 groupId |-> NULL])
               IN  /\ out.rootOrder = <<g1>> \o FilterOut(v9_appState.rootOrder, g1)
                   /\ out.itemIds = v9_appState.itemIds
                   /\ out.groupId = v9_appState.groupId
    /\ (demo = "v3d" /\ dnd_active = NULL) =>
           \A gi \in 1..Len(v3d_items) :
               v3d_items[gi].type = "group" =>
                   LET g1  == v3d_items[gi]
                       out == IF gi = 1 THEN v3d_items
                              ELSE V3dDragEndUpdate(v3d_items, g1.id,
                                       [id |-> v3d_items[1].id, type |-> v3d_items[1].type,
                                        groupId |-> NULL])
                   IN  out = <<g1>> \o FilterOutId(v3d_items, g1.id)

\* the scenario has run on the initial tree of a demo: the first group was
\* released over item-1 and heads the root list with its two children
C27_Witness ==
    /\ gestures = 1
    /\ dnd_active = NULL
    /\ \/ /\ demo = "v9"
          /\ v9_appState.rootOrder = <<"group-a", "item-1", "item-4", "group-b", "item-6">>
          /\ v9_appState.itemIds["group-a"] = <<"item-2", "item-3">>
       \/ /\ demo = "v3d"
          /\ v3d_items[1] = Gr("group-1", <<It("item-2"), It("item-3")>>)
          /\ v3d_items[2] = It("item-1")
          /\ v3d_items[3] = It("item-4")

(***************************************************************************)
(* Empty groups                                                            *)
(***************************************************************************)
\* the ids of the groups of the root list
RootGroupIds ==
    CASE demo = "v9" -> {g \in DOMAIN v9_appState.itemIds : Includes(v9_appState.rootOrder, g)}
      [] demo = "v6" -> V3dGroupIdsOf(v6_elements)
      [] demo = "p1" -> {p1_topLevel[i].id :
                            i \in {j \in 1..Len(p1_topLevel) : p1_topLevel[j].type = "group"}}
      [] OTHER -> {}

\* v9: an empty root group takes a dropped item as its only child, and stays
\* empty and in the root list, once, wherever it is dragged
V9EmptyGroupWorks(g) ==
    /\ \A d \in V9ItemIds :
           V9DragEnd(v9_appState, d, [id |-> g, type |-> "group", groupId |-> NULL])
               .itemIds[g] = <<d>>
    /\ \A over \in V9Overs(v9_appState, g) :
           LET out == V9DragEnd(v9_appState, g, over) IN
           /\ out.itemIds = v9_appState.itemIds
           /\ FilterOut(out.rootOrder, g) = FilterOut(v9_appState.rootOrder, g)
           /\ Count(out.rootOrder, g) = 1

\* v6: an item dragged into the middle of an empty root group and released
\* there is its only child
V6EmptyGroupTakesItem(g) ==
    \A rect \in V6Rects : \A y \in V6Offsets :
        BandOf(rect, y) = "middle" =>
            LET out == V6HoverThenDrop(g, rect, y) IN
            /\ FindGroupIndex(out, g) # -1
            /\ out[FindGroupIndex(out, g) + 1].items = <<It(dnd_active)>>

\* part_001: the header of an empty group can be dragged over every top-level
\* node: the group keeps its place in groupItems and its single root entry
P1EmptyGroupMoves(g) ==
    \A over \in {n \in P1Nodes(p1_topLevel, p1_groupItems) : n.container = "top"} :
        LET r == P1DragEnd(p1_topLevel, p1_groupItems,
                           [id |-> P1GroupHeaderId(g), container |-> "top",
                            content |-> "Group " \o g], over)
        IN  /\ r.groupItems = p1_groupItems
            /\ Cardinality(P1GroupRefs(r.topLevel, g)) = Cardinality(P1GroupRefs(p1_topLevel, g))
            /\ Len(r.topLevel) = Len(p1_topLevel)

EmptyGroupsWork ==
    /\ (demo = "v9" /\ dnd_active = NULL) =>
           \A g \in RootGroupIds : v9_appState.itemIds[g] = <<>> => V9EmptyGroupWorks(g)
    /\ (demo = "v6" /\ dnd_active = NULL) =>
           \A g \in RootGroupIds :
               v6_elements[FindGroupIndex(v6_elements, g) + 1].items = <<>> =>
                   V6RemoveGroupElements(v6_elements, g) = FilterOutId(v6_elements, g)
    /\ (demo = "v6" /\ dnd_active # NULL /\ v6_activeElement.type = "item") =>
           \A g \in V6HoverableGroups :
               v6_elements[FindGroupIndex(v6_elements, g) + 1].items = <<>> =>
                   V6EmptyGroupTakesItem(g)
    /\ (demo = "p1" /\ dnd_active = NULL) =>
           \A g \in P1EmptyGroups(p1_topLevel, p1_groupItems) : P1EmptyGroupMoves(g)

CommittedTree ==
    CASE demo = "v9"  -> <<v9_appState>>
      [] demo = "v3a" -> <<v3a_items, v3a_groups, v3a_mainList>>
      [] OTHER -> <<>>

\* a step that keeps the gestures apart
SerializedStep ==
    /\ (dnd_active # NULL => dnd_active' \in {dnd_active, NULL})
    /\ (~GestureEnds => CommittedTree' = CommittedTree)
    /\ (~GestureEnds => gestures' = gestures)
    /\ (GestureEnds => gestures' = gestures + 1)

LeftColumn  == IF demo = "v10a" THEN v10a_leftColumnItems ELSE v4b_leftColumnItems
RightColumn == IF demo = "v10a" THEN v10a_rightColumnItems ELSE v4b_rightColumnItems

TwoColGroupIds == IF demo = "v10a" THEN V10GroupIds ELSE V4bGroupIds
TwoColItemIds  == IF demo = "v10a" THEN V10ItemIds ELSE V4bItemIds

\* the lists a release in the current state commits
TwoColPendingDrop ==
    IF demo = "v10a"
    THEN V10DragEnd(v10a_leftColumnItems, v10a_rightColumnItems, v10a_groups,
                    v10a_overDropZone, dnd_active, dnd_over)
    ELSE V4bDragEnd(v4b_leftColumnItems, v4b_rightColumnItems, v4b_groups,
                    v4b_previewPosition, v4b_isOverLeftColumn, dnd_active, dnd_over)

OnlyItems(list) == \A i \in 1..Len(list) : list[i] \in TwoColItemIds

\* a group is held over the left column or over an item of the left column
GroupOverLeft ==
    /\ dnd_active \in TwoColGroupIds
    /\ dnd_over.id = LEFT_COLUMN_ID \/ Includes(LeftColumn, dnd_over.id)

\* C30: in the two-column demos the left column list holds item ids only,
\* whatever gestures were made, every group is an entry of the right column
\* list, and releasing a group held over the left column or over an item of
\* the left column leaves the left column as it is and the group in the
\* right column
C30_LeftColumnOnlyItems ==
    /\ OnlyItems(LeftColumn)
    /\ \A g \in TwoColGroupIds : Includes(RightColumn, g)
    /\ dnd_active # NULL => OnlyItems(TwoColPendingDrop.left)
    /\ GroupOverLeft =>
          /\ TwoColPendingDrop.left = LeftColumn
          /\ Includes(TwoColPendingDrop.right, dnd_active)

\* a gesture moved an item of the right column into the left column
C30_Witness ==
    /\ demo = "v4b"
    /\ dnd_active = NULL
    /\ gestures = 1
    /\ Len(v4b_leftColumnItems) = 3
    /\ OnlyItems(v4b_leftColumnItems)


\* C31: in the normalized-state demo (v9) the groupId cached on an item agrees
\* with the containers: items[id].groupId = g exactly when id is in
\* groups[g].itemIds, and items[id].groupId = null exactly when id is in
\* rootOrder, after any sequence of gestures
C31_GroupIdMatchesMembership ==
    demo = "v9" =>
        \A id \in V9ItemIds :
            /\ \A g \in V9GroupIds :
                  (v9_appState.groupId[id] = g) <=> Includes(v9_appState.itemIds[g], id)
            /\ (v9_appState.groupId[id] = NULL) <=> Includes(v9_appState.rootOrder, id)

\* a gesture moved an item into another container: its cached groupId is
\* not the initial one
C31_Witness ==
    /\ demo = "v9"
    /\ dnd_active = NULL
    /\ gestures >= 1
    /\ \E id \in V9ItemIds :
          /\ v9_appState.groupId[id] # V9initialData.groupId[id]
          /\ v9_appState.groupId[id] # NULL
          /\ Includes(v9_appState.itemIds[v9_appState.groupId[id]], id)


\* the v0 list without the element a: a is dropped from the top level and from
\* every group, everything else stays where it is
V0Without(items, a) ==
    LET rest == FilterOutId(items, a)
    IN  [i \in 1..Len(rest) |-> [rest[i] EXCEPT !.items = FilterOut(@, a)]]

V0OnlyDraggedMoves ==
    (demo = "v0" /\ GestureEnds) =>
        V0Without(v0_items', dnd_active) = V0Without(v0_items, dnd_active)

\* C32: a drag end moves the dragged element only: leaving the dragged
\* element out, every container holds the same elements in the same order
\* before and after the drop, also when the dragged or the hovered id is an
\* item of a group and so not an entry of the list being reordered
C32_OnlyDraggedMoves == [][V0OnlyDraggedMoves]_vars


\* the session state of the mounted demo is the one of construction
SessionCleared ==
    /\ demo = "v6" => /\ v6_activeElement = V6NoElement
                      /\ v6_activeItemFromGroup = V6NoFromGroup
                      /\ v6_dropTarget = V6NoTarget
    /\ demo = "v3a" => /\ v3a_activeId = NULL
                       /\ v3a_activeType = NULL
                       /\ v3a_dropIndicator = V3aNoIndicator

\* C33: every gesture returns the session to Idle: when no drag is in
\* progress, after a drag end on any return path or after a cancel, the active
\* id/element, the tracked source group and the drop preview are cleared
C33_IdleIsCleared == dnd_active = NULL => SessionCleared


\* the groups of the mounted two-column demo
TwoColGroups == IF demo = "v10a" THEN v10a_groups ELSE v4b_groups

\* number of places holding the id: positions of the left list, of the right
\* root list and of the items of every group
Places(left, right, groups, id) ==
    Count(left, id) + Count(right, id)
    + Cardinality({<<g, i>> \in (1..Len(groups)) \X (1..8) :
                      i <= Len(groups[g].items) /\ groups[g].items[i] = id})

V3aTreeItemIds(groups, mainList) ==
    {mainList[i].id : i \in {j \in 1..Len(mainList) : mainList[j].type = "item"}}
    \cup UNION {{groups[g].items[k].id : k \in 1..Len(groups[g].items)} :
                 g \in 1..Len(groups)}

\* C35: a move keeps the identity of the moved item: the set of item ids in
\* the tree of the first demo of v3.tsx is the initial one after every gesture
C35_ItemIdsPreserved ==
    demo = "v3a" =>
        V3aTreeItemIds(v3a_groups, v3a_mainList)
            = V3aTreeItemIds(V3ainitialGroups, V3ainitialMainList)


\* an item of a group is held over another item of the same group
V1OverSibling ==
    /\ demo = "v1"
    /\ dnd_active # NULL
    /\ V1parentId(v1_groups, dnd_active) # NULL
    /\ dnd_over.id # dnd_active
    /\ V1parentId(v1_groups, dnd_over.id) = V1parentId(v1_groups, dnd_active)

\* the groups with the dragged item moved to the index of the hovered sibling
V1SortedInGroup ==
    LET g == V1parentId(v1_groups, dnd_active) IN
    [i \in 1..Len(v1_groups) |->
        IF v1_groups[i].id = g
        THEN [v1_groups[i] EXCEPT !.items =
                 arrayMove(@, FindIndex(@, dnd_active), FindIndex(@, dnd_over.id))]
        ELSE v1_groups[i]]

\* C36: releasing an item of a group over a sibling of the same group moves it
\* to the sibling's index within the group: the item stays a child of the
\* group and the root items are unchanged
C36_SortWithinGroup ==
    V1OverSibling =>
        LET r == V1DragEnd(v1_items, v1_groups, dnd_active, dnd_over)
        IN  /\ r.items = v1_items
            /\ r.groups = V1SortedInGroup


\* the messages stream k has sent so far, in the order of the sends: the ones
\* its listener has received, then the ones still on the way
IpcSentBy(k) ==
    LET Got(r)   == r.listener = k /\ r.chunk.stream = k
        Mine(m)  == m.stream = k
        got      == SelectSeq(ipc_received, Got)
    IN  [i \in 1..Len(got) |-> got[i].chunk] \o SelectSeq(ipc_wire, Mine)

\* the chunks with a content among the messages
IpcContentsOf(msgs) ==
    LET HasContent(m) == m.type = "chunk" /\ m.content # UNDEFINED
        cs == SelectSeq(msgs, HasContent)
    IN  [i \in 1..Len(cs) |-> cs[i].content]

IsPrefix(p, q) == Len(p) <= Len(q) /\ p = SubSeq(q, 1, Len(p))

\* every text made of the first i chunks
IpcPrefixTexts(chunks) == {Concat(SubSeq(chunks, 1, i)) : i \in 0..Len(chunks)}

\* stream k sends its chunks in order; 'done' is sent once, after all of them,
\* and nothing follows it
IpcOrderedStream(k) ==
    LET msgs   == IpcSentBy(k)
        chunks == IpcChunks(ipc_streams[k].words)
    IN  /\ IsPrefix(IpcContentsOf(msgs), chunks)
        /\ \A i \in 1..Len(msgs) :
              msgs[i].type = "done" =>
                  /\ i = Len(msgs)
                  /\ IpcContentsOf(msgs) = chunks
        /\ ipc_streams[k].state = "done" =>
              msgs # <<>> /\ msgs[Len(msgs)].type = "done"

\* C37: for one stream the main process sends every content chunk in order
\* and then one 'done' as its last message; the response of the hook is at
\* all times the text of the first chunks sent, and when isDone is true it is
\* the text of all of them
C37_StreamInOrder ==
    demo = "ipc" =>
        /\ \A k \in 1..Len(ipc_streams) : IpcOrderedStream(k)
        /\ ipc_streams # <<>> =>
              LET k == Len(ipc_streams) IN
              /\ ipc_response \in IpcPrefixTexts(IpcContentsOf(IpcSentBy(k)))
              /\ ipc_isDone => ipc_response = Concat(IpcChunks(ipc_streams[k].words))

\* a stream of two words has been received to its end
C37_Witness ==
    /\ demo = "ipc"
    /\ Len(ipc_streams) = 1
    /\ ipc_isDone
    /\ ipc_response = Concat(IpcChunks(<<"b", "c">>))
    /\ ipc_wire = <<>>


\* every callback invocation so far was made for a chunk of its own stream
IpcOwnChunksOnly ==
    \A i \in 1..Len(ipc_received) :
        ipc_received[i].listener = ipc_received[i].chunk.stream

\* the response holds chunks of the latest request only
IpcResponseOfLatest ==
    ipc_streams # <<>> =>
        ipc_response \in IpcPrefixTexts(IpcChunks(ipc_streams[Len(ipc_streams)].words))

\* C38: streams are isolated: when stream requests overlap, a chunk is handed
\* to the callback of its own stream only, and the response accumulated for
\* the latest request holds no chunk of an earlier request
C38_StreamsIsolated ==
    demo = "ipc" => IpcOwnChunksOnly /\ IpcResponseOfLatest


\* C39: every started stream leaves the loading state: once streamResponse
\* has set loading, it becomes false again, by the 'done' message or by the
\* error chunk of the catch block
C39_LoadingEnds == (demo = "ipc" /\ ipc_loading) ~> ~ipc_loading

\* a stream has failed and its error chunk has ended the loading state
C39_Witness ==
    /\ demo = "ipc"
    /\ ipc_streams # <<>>
    /\ ipc_streams[Len(ipc_streams)].state = "failed"
    /\ ipc_error = "Unknown error"
    /\ ~ipc_loading
====
